---- MODULE Spec2Model ----
(***************************************************************************)
(* OpenAuth connection broker: the connect-session state machine, the      *)
(* OAuth callback, the token read with refresh-on-read, disconnect, and    *)
(* the credential vault, as a state machine over the three tables of      *)
(* db/schema.ts.  Every await of a handler (a query, an update, a fetch)    *)
(* is a step of its own, so handlers of concurrent requests interleave at  *)
(* exactly the points where the code yields.                               *)
(***************************************************************************)
EXTENDS Integers, Sequences, FiniteSets, TLC

VARIABLES
  now,                  \* the server clock, in ticks of ten minutes
  providerCredentials,  \* table provider_credentials: set of rows
  sc,                   \* set-credentials requests in flight: process -> position and locals
  connectSessions,      \* table connect_sessions: sequence of rows, index = id
  connections,          \* table connections: set of rows
  cb,                   \* callback requests in flight: process -> position and locals
  tk,                   \* token reads in flight: process -> position and locals
  response,             \* the response the step just taken sent (with its request), or Null
  completions,          \* history: session id -> number of callback runs that wrote 'completed'
  raced,                \* history: sessions on which two callback runs overlapped
  history,              \* history: per pair, the callback whose write is the latest
                        \* change of the pair's row, and what callbacks did since the
                        \* last successful disconnect
  clock,                \* Date.now() as the rate limiter reads it, in milliseconds
  store,                \* the rate limiter's Map: key -> [count, resetAt]
  lastCleanup,          \* the rate limiter's lastCleanup, in milliseconds
  checked               \* history: the requests the rate limiter checked, in order

\* The state of the rate limiter.
limiter == <<clock, store, lastCleanup, checked>>

vars == <<now, providerCredentials, sc, connectSessions, connections, cb, tk,
          response, completions, raced, history, limiter>>

(* ------------------------------ bounds --------------------------------- *)

\* The clock stops at MaxTime.
MaxTime == 2

\* At most MaxSessions connect sessions are created where callbacks run one
\* at a time and nothing else runs.
MaxSessions == 2

\* At most MaxRacedSessions connect sessions are created where callbacks run
\* concurrently with each other or with token reads.
MaxRacedSessions == 1

\* Plaintexts given to the vault alone have at most MaxPlaintext bytes.
MaxPlaintext == 2

\* The rate limiter's clock stops after MaxClockSteps steps.
MaxClockSteps == 3

\* The rate limiter checks at most MaxRequests requests.
MaxRequests == 4

(* ------------------------- program constants --------------------------- *)

\* encryption.ts: 96-bit IV, 128-bit auth tag.
IV_LENGTH == 12

TAG_LENGTH == 16

\* sessions/route.ts: expiresAt = Date.now() + 10 * 60 * 1000; one tick of
\* the clock is ten minutes.
SessionTtl == 1

(* --------------------------- optional values --------------------------- *)

\* null / undefined
Null == [none |-> TRUE]

\* A present string, number or byte sequence (records stand for themselves).
Some(x) == [v |-> x]

\* JavaScript truthiness of an optional number: undefined and 0 are falsy.
TruthyNumber(x) == x # Null /\ x.v # 0

\* JavaScript truthiness of an optional string: undefined and "" are falsy.
TruthyBytes(x) == x # Null /\ Len(x.v) > 0

(* --------------------------- provider registry ------------------------- *)

\* authorizationParams: {}
NoParams == [name \in {} |-> ""]

\* A registry whose github descriptor names a refresh endpoint.
providersWithGithubRefresh ==
  [ github |-> [key |-> "github",
                refreshUrl |-> Some("https://github.com/login/oauth/access_token"),
                authorizationUrl |-> "https://github.com/login/oauth/authorize",
                tokenUrl |-> "https://github.com/login/oauth/access_token",
                defaultScopes |-> "repo", authorizationParams |-> NoParams, pkce |-> FALSE],
    acme   |-> [key |-> "acme", refreshUrl |-> Some("https://acme.example/oauth/token"),
                authorizationUrl |-> "https://acme.example/oauth/authorize",
                tokenUrl |-> "https://acme.example/oauth/token",
                defaultScopes |-> "read", authorizationParams |-> NoParams, pkce |-> TRUE] ]

\* The registry.  github is the registered descriptor (refreshUrl: null);
\* acme is a descriptor of the ProviderConfig type with a refresh endpoint
\* and PKCE,
\* as one added by "create a config file in ./configs/ and add it here".
providers ==
  [ github |-> [key |-> "github", refreshUrl |-> Null,
                authorizationUrl |-> "https://github.com/login/oauth/authorize",
                tokenUrl |-> "https://github.com/login/oauth/access_token",
                defaultScopes |-> "repo", authorizationParams |-> NoParams, pkce |-> FALSE],
    acme   |-> [key |-> "acme", refreshUrl |-> Some("https://acme.example/oauth/token"),
                authorizationUrl |-> "https://acme.example/oauth/authorize",
                tokenUrl |-> "https://acme.example/oauth/token",
                defaultScopes |-> "read", authorizationParams |-> NoParams, pkce |-> TRUE] ]

ProviderKeys == DOMAIN providers

getProvider(key) == IF key \in DOMAIN providers THEN providers[key] ELSE Null

\* The external connection ids callers use.
ConnectionIds == {"user-1"}

(* ---------------------------- credential vault ------------------------- *)

\* A byte; tokens are short byte strings.
Bytes == 0 .. 3

\* The nonces randomBytes(IV_LENGTH) draws from.
Nonces == {1}

\* The GCM keystream: byte i of the plaintext is shifted by the nonce.
Cipher(iv, text) == [i \in 1 .. Len(text) |-> (text[i] + iv) % 4]

Decipher(iv, text) == [i \in 1 .. Len(text) |-> (text[i] + 4 - iv) % 4]

\* The GCM tag authenticates nonce and ciphertext.
AuthTag(iv, ciphertext) == <<iv, ciphertext>>

\* encrypt: pack iv (12) + authTag (16) + ciphertext.
encrypt(plaintext, iv) ==
  [iv |-> iv, authTag |-> AuthTag(iv, Cipher(iv, plaintext)),
   ciphertext |-> Cipher(iv, plaintext)]

packedLength(packed) == IV_LENGTH + TAG_LENGTH + Len(packed.ciphertext)

\* The decrypt that never compares the auth tag.
decryptUnauthenticated(packed) ==
  IF packedLength(packed) < IV_LENGTH + TAG_LENGTH + 1
    THEN [ok |-> FALSE, value |-> <<>>]
  ELSE [ok |-> TRUE, value |-> Decipher(packed.iv, packed.ciphertext)]

\* decrypt: throws on a payload shorter than iv + tag + 1 and on a tag
\* mismatch; otherwise returns the plaintext.
decrypt(packed) ==
  IF packedLength(packed) < IV_LENGTH + TAG_LENGTH + 1
    THEN [ok |-> FALSE, value |-> <<>>]
  ELSE IF packed.authTag # AuthTag(packed.iv, packed.ciphertext)
    THEN [ok |-> FALSE, value |-> <<>>]
  ELSE [ok |-> TRUE, value |-> Decipher(packed.iv, packed.ciphertext)]

(* ------------------------------ request filters ------------------------ *)

\* String.prototype.toLowerCase on the letters of the Latin alphabet.
LowerOf ==
  [A |-> "a", B |-> "b", C |-> "c", D |-> "d", E |-> "e", F |-> "f", G |-> "g",
   H |-> "h", I |-> "i", J |-> "j", K |-> "k", L |-> "l", M |-> "m", N |-> "n",
   O |-> "o", P |-> "p", Q |-> "q", R |-> "r", S |-> "s", T |-> "t", U |-> "u",
   V |-> "v", W |-> "w", X |-> "x", Y |-> "y", Z |-> "z"]

UpperLetters == DOMAIN LowerOf

LowerLetters == {LowerOf[c] : c \in UpperLetters}

Digits == {"0", "1", "2", "3", "4", "5", "6", "7", "8", "9"}

\* The character at position i of a string.
charAt(s, i) == SubSeq(s, i, i)

RECURSIVE toLowerCase(_)
toLowerCase(s) ==
  IF Len(s) = 0 THEN ""
  ELSE (IF charAt(s, 1) \in UpperLetters THEN LowerOf[charAt(s, 1)] ELSE charAt(s, 1))
         \o toLowerCase(SubSeq(s, 2, Len(s)))

\* \s of a regular expression, on the characters a header can hold.
Whitespace == {" ", "\t"}

\* Position of the first character of s at or after i that is not
\* whitespace (Len(s) + 1 when there is none).
RECURSIVE skipWhitespace(_, _)
skipWhitespace(s, i) ==
  IF i <= Len(s) /\ charAt(s, i) \in Whitespace THEN skipWhitespace(s, i + 1) ELSE i

\* auth.ts line 32: authHeader.replace(/^Bearer\s+/i, '').
stripBearer(authHeader) ==
  IF /\ Len(authHeader) >= 7
     /\ toLowerCase(SubSeq(authHeader, 1, 6)) = "bearer"
     /\ charAt(authHeader, 7) \in Whitespace
    THEN SubSeq(authHeader, skipWhitespace(authHeader, 7), Len(authHeader))
    ELSE authHeader

\* auth.ts lines 48-56: equal length and no differing character.
timingSafeEqual(a, b) ==
  IF Len(a) # Len(b) THEN FALSE
  ELSE \A i \in 1 .. Len(a) : charAt(a, i) = charAt(b, i)

\* process.env.OPENAUTH_API_KEY of the deployment: a key is configured.
OPENAUTH_API_KEY == Some("oa_key")

\* The header of a request that carries the configured key.
Authorized == Some("Bearer oa_key")

\* verifyApiKey: Null when the request passes, else the error of the 401.
verifyApiKey(apiKey, authHeader) ==
  IF apiKey = Null \/ apiKey.v = "" THEN Null
  ELSE IF authHeader = Null \/ authHeader.v = ""
    THEN Some("Missing Authorization header. Use: Authorization: Bearer <api_key>")
  ELSE IF ~timingSafeEqual(stripBearer(authHeader.v), apiKey.v)
    THEN Some("Invalid API key")
  ELSE Null

\* validate.ts line 8.
MAX_STRING_LENGTH == 500

\* validate.ts line 18.
PROVIDER_KEY_MAX == 50

\* validate.ts line 28.
CONNECTION_ID_MAX == 200

\* credentials/route.ts lines 54-55.
CLIENT_FIELD_MAX == 200

\* The characters of SAFE_ID_PATTERN.
SafeIdChars == LowerLetters \cup UpperLetters \cup Digits \cup {"_", "-", ".", ":"}

\* SAFE_ID_PATTERN: /^[a-zA-Z0-9_\-.:]+$/
matchesSafeId(s) ==
  /\ Len(s) > 0
  /\ \A i \in 1 .. Len(s) : charAt(s, i) \in SafeIdChars

\* validateProviderKey: the key, or Null.
validateProviderKey(key) ==
  IF Len(key) = 0 \/ Len(key) > PROVIDER_KEY_MAX THEN Null
  ELSE IF ~matchesSafeId(key) THEN Null
  ELSE Some(key)

\* validateConnectionId: the id, or Null.
validateConnectionId(id) ==
  IF Len(id) = 0 \/ Len(id) > CONNECTION_ID_MAX THEN Null
  ELSE IF ~matchesSafeId(id) THEN Null
  ELSE Some(id)

\* validateString: the value, or Null.
validateString(value, maxLength) ==
  IF Len(value) = 0 \/ Len(value) > maxLength THEN Null ELSE Some(value)

\* Position of the first ":" of s at or after i (0 when there is none).
RECURSIVE indexOfColon(_, _)
indexOfColon(s, i) ==
  IF i > Len(s) THEN 0
  ELSE IF charAt(s, i) = ":" THEN i
  ELSE indexOfColon(s, i + 1)

\* The characters of a URL scheme (after lower-casing).
SchemeChars == LowerLetters \cup Digits \cup {"+", "-", "."}

\* new URL(uri).protocol: the scheme, lower-cased, with its colon; Null when
\* the constructor throws (no scheme, or an http(s) URL without a host).
urlProtocol(uri) ==
  LET colon == indexOfColon(uri, 1)
      scheme == toLowerCase(SubSeq(uri, 1, colon - 1))
      rest == SubSeq(uri, colon + 1, Len(uri)) IN
  IF colon < 2 THEN Null
  ELSE IF charAt(scheme, 1) \notin LowerLetters THEN Null
  ELSE IF \E i \in 1 .. Len(scheme) : charAt(scheme, i) \notin SchemeChars
    THEN Null
  ELSE IF scheme \in {"http", "https"} /\ rest \in {"", "/", "//", "///"} THEN Null
  ELSE Some(scheme \o ":")

\* validateRedirectUri: the uri, or Null for an absent value, a string that
\* is too long or no URL, and a javascript: or data: URL.
validateRedirectUri(uri) ==
  IF uri = Null THEN Null
  ELSE IF Len(uri.v) > MAX_STRING_LENGTH THEN Null
  ELSE IF urlProtocol(uri.v) = Null THEN Null
  ELSE IF urlProtocol(uri.v).v \in {"javascript:", "data:"} THEN Null
  ELSE uri

\* The byte strings of at most n bytes.
RECURSIVE BytesUpTo(_)
BytesUpTo(n) ==
  IF n = 0 THEN {<<>>}
  ELSE BytesUpTo(n - 1) \cup {Append(b, x) : b \in {c \in BytesUpTo(n - 1) : Len(c) = n - 1},
                                              x \in Bytes}

\* The payloads that differ from packed in one byte: of the nonce, of the
\* auth tag, or of the ciphertext.
tamperedPayloads(packed) ==
  {[packed EXCEPT !.iv = iv] : iv \in Bytes \ {packed.iv}}
    \cup {[packed EXCEPT !.authTag = AuthTag(iv, packed.ciphertext)] :
            iv \in Bytes \ {packed.authTag[1]}}
    \cup {[packed EXCEPT !.authTag = AuthTag(packed.iv, [packed.ciphertext EXCEPT ![ix[1]] = ix[2]])] :
            ix \in {jy \in (1 .. Len(packed.ciphertext)) \X Bytes :
                      jy[2] # packed.ciphertext[jy[1]]}}
    \cup {[packed EXCEPT !.ciphertext[ix[1]] = ix[2]] :
            ix \in {jy \in (1 .. Len(packed.ciphertext)) \X Bytes :
                      jy[2] # packed.ciphertext[jy[1]]}}

\* What the vault did last: the plaintext encrypted, the payload (as
\* encrypt returned it or with a byte changed since), and what decrypt made
\* of the payload.
vaultRecord(plaintext, payload, tampered, decrypted) ==
  [endpoint |-> "vault", plaintext |-> plaintext, payload |-> payload,
   tampered |-> tampered, decrypted |-> decrypted]

\* encrypt(plaintext) with the nonce randomBytes drew.
Encrypt(plaintext, iv) ==
  /\ response' = vaultRecord(plaintext, encrypt(plaintext, iv), FALSE, Null)
  /\ UNCHANGED <<limiter, now, history, providerCredentials, sc, connectSessions, connections, cb, tk,
                 completions, raced>>

\* One byte of the stored payload changes.
Tamper ==
  /\ response # Null
  /\ response.endpoint = "vault"
  /\ ~response.tampered
  /\ response.decrypted = Null
  /\ \E payload \in tamperedPayloads(response.payload) :
       response' = [response EXCEPT !.payload = payload, !.tampered = TRUE]
  /\ UNCHANGED <<limiter, now, history, providerCredentials, sc, connectSessions, connections, cb, tk,
                 completions, raced>>

\* decrypt(payload).
Decrypt ==
  /\ response # Null
  /\ response.endpoint = "vault"
  /\ response.decrypted = Null
  /\ response' = [response EXCEPT !.decrypted = Some(decrypt(response.payload))]
  /\ UNCHANGED <<limiter, now, history, providerCredentials, sc, connectSessions, connections, cb, tk,
                 completions, raced>>

(* ------------------------- provider credentials ------------------------ *)

\* The rows of a provider key.
credentialsRows(providerKey) == {r \in providerCredentials : r.providerKey = providerKey}

\* select ... where provider_key = ? limit 1: the row, or Null.
credentialsOf(providerKey) ==
  IF credentialsRows(providerKey) = {} THEN Null
  ELSE CHOOSE r \in credentialsRows(providerKey) : TRUE

\* The resolver without the test of the enabled column.
resolveProviderIgnoringEnabled(providerKey) ==
  IF getProvider(providerKey) = Null THEN Null
  ELSE IF credentialsOf(providerKey) = Null THEN Null
  ELSE [config |-> getProvider(providerKey),
        clientId |-> credentialsOf(providerKey).clientId,
        scopes |-> getProvider(providerKey).defaultScopes]

\* resolveProvider: null for an unknown key, a missing row or a disabled row.
resolveProvider(providerKey) ==
  IF getProvider(providerKey) = Null THEN Null
  ELSE IF credentialsOf(providerKey) = Null THEN Null
  ELSE IF ~credentialsOf(providerKey).enabled THEN Null
  ELSE [config |-> getProvider(providerKey),
        clientId |-> credentialsOf(providerKey).clientId,
        scopes |-> getProvider(providerKey).defaultScopes]

\* isValidProvider: the key is in the registry.
isValidProvider(key) == key \in DOMAIN providers

scIdle ==
  [pc |-> "idle", authorization |-> Null, key |-> "", clientId |-> "", existing |-> Null]

\* A response of set-provider-credentials.
credentialsJson(authorization, key, clientId, status, error) ==
  [endpoint |-> "credentials", authorization |-> authorization, provider |-> key,
   clientId |-> clientId, status |-> status, error |-> error]

\* uuid defaultRandom(): an id no credentials row has (ids are opaque; this
\* one does not depend on the order in which keys were configured).
freshCredentialsId(key) == <<key, Cardinality(credentialsRows(key)) + 1>>

\* A table without the unique constraint: every insert is admitted.
noUniqueProviderKey(key) == TRUE

\* provider_key ... unique(): the constraint admits the insert.
uniqueProviderKeyAdmits(key) == credentialsRows(key) = {}

\* Lines 79-87: the update of the row selected, by id.
updateCredentials(existing, clientId) ==
  {IF r.id = existing THEN [r EXCEPT !.clientId = clientId, !.enabled = TRUE] ELSE r :
     r \in providerCredentials}

\* Lines 92-98: the row inserted.
newCredentials(key, clientId) ==
  [id |-> freshCredentialsId(key), providerKey |-> key, clientId |-> clientId, enabled |-> TRUE]

\* The client ids and secrets deployers send ("" for a missing field).
ClientIds == {"", "client-a", "client-b"}

ClientSecrets == {"", "secret"}

\* POST /api/providers/:key/credentials, lines 23-75: the filters, the
\* validation of key and body, and the select of the existing row.
ScStart(s, authorization, key, clientId, clientSecret) ==
  /\ sc[s].pc = "idle"
  /\ IF verifyApiKey(OPENAUTH_API_KEY, authorization) # Null
       THEN /\ response' = credentialsJson(authorization, key, clientId, 401,
                                           verifyApiKey(OPENAUTH_API_KEY, authorization).v)
            /\ UNCHANGED sc
     ELSE IF validateProviderKey(key) = Null
       THEN /\ response' = credentialsJson(authorization, key, clientId, 400,
                                           "Invalid provider key")
            /\ UNCHANGED sc
     ELSE IF ~isValidProvider(key)
       THEN /\ response' = credentialsJson(authorization, key, clientId, 404,
                 "Unknown provider: \"" \o key
                   \o "\". Available providers can be found at GET /api/providers.")
            /\ UNCHANGED sc
     ELSE IF \/ validateString(clientId, CLIENT_FIELD_MAX) = Null
             \/ validateString(clientSecret, CLIENT_FIELD_MAX) = Null
       THEN /\ response' = credentialsJson(authorization, key, clientId, 400,
                                           "Missing or invalid fields: clientId, clientSecret")
            /\ UNCHANGED sc
     ELSE /\ sc' = [sc EXCEPT ![s] =
                      [pc |-> "write", authorization |-> authorization, key |-> key,
                       clientId |-> clientId,
                       existing |-> IF credentialsOf(key) = Null THEN Null
                                    ELSE Some(credentialsOf(key).id)]]
          /\ response' = Null
  /\ UNCHANGED <<limiter, now, history, providerCredentials, connectSessions, connections, cb, tk,
                 completions, raced>>

\* Lines 77-108: update the row selected or insert a new one, and answer;
\* an insert the unique constraint rejects throws and is answered 500.
ScWrite(s) ==
  /\ sc[s].pc = "write"
  /\ IF sc[s].existing # Null
       THEN /\ providerCredentials' = updateCredentials(sc[s].existing.v, sc[s].clientId)
            /\ response' = credentialsJson(sc[s].authorization, sc[s].key, sc[s].clientId,
                                           200, "")
     ELSE IF uniqueProviderKeyAdmits(sc[s].key)
       THEN /\ providerCredentials' =
                 providerCredentials \cup {newCredentials(sc[s].key, sc[s].clientId)}
            /\ response' = credentialsJson(sc[s].authorization, sc[s].key, sc[s].clientId,
                                           200, "")
     ELSE /\ response' = credentialsJson(sc[s].authorization, sc[s].key, sc[s].clientId,
                                         500, "Internal server error")
          /\ UNCHANGED providerCredentials
  /\ sc' = [sc EXCEPT ![s] = scIdle]
  /\ UNCHANGED <<limiter, now, history, connectSessions, connections, cb, tk, completions, raced>>

\* A set-provider-credentials call for a registered key that runs with no
\* other call in flight: its select and its write in one step.
SetCredentials(key) ==
  /\ isValidProvider(key)
  /\ \A s \in DOMAIN sc : sc[s].pc = "idle"
  /\ providerCredentials' =
       IF credentialsOf(key) # Null
         THEN updateCredentials(credentialsOf(key).id, "client")
         ELSE providerCredentials \cup {newCredentials(key, "client")}
  /\ response' = Null
  /\ UNCHANGED <<limiter, now, history, sc, connectSessions, connections, cb, tk, completions, raced>>

\* getProviderStatuses: key, configured and enabled of every registered
\* provider.
getProviderStatuses ==
  [key \in DOMAIN providers |->
     [configured |-> credentialsOf(key) # Null,
      enabled |-> IF credentialsOf(key) # Null THEN credentialsOf(key).enabled ELSE FALSE]]

\* GET /api/providers: the filter, then the statuses.
ListProviders(authorization) ==
  /\ response' =
       IF verifyApiKey(OPENAUTH_API_KEY, authorization) # Null
         THEN [endpoint |-> "providers", authorization |-> authorization, status |-> 401,
               error |-> verifyApiKey(OPENAUTH_API_KEY, authorization).v, providers |-> Null]
         ELSE [endpoint |-> "providers", authorization |-> authorization, status |-> 200,
               error |-> "", providers |-> Some(getProviderStatuses)]
  /\ UNCHANGED <<limiter, now, history, providerCredentials, sc, connectSessions, connections, cb, tk,
                 completions, raced>>

\* The deployer clears the enabled column of a row (no endpoint does).
DisableCredentials(key) ==
  /\ credentialsOf(key) # Null
  /\ credentialsOf(key).enabled
  /\ providerCredentials' =
       {IF r.providerKey = key THEN [r EXCEPT !.enabled = FALSE] ELSE r :
          r \in providerCredentials}
  /\ response' = Null
  /\ UNCHANGED <<limiter, now, history, sc, connectSessions, connections, cb, tk, completions, raced>>

(* ------------------------------- the clock ----------------------------- *)

Tick ==
  /\ now < MaxTime
  /\ now' = now + 1
  /\ response' = Null
  /\ UNCHANGED <<limiter, providerCredentials, sc, connectSessions, connections, cb, tk,
                 completions, raced, history>>

(* ---------------------------- connect sessions ------------------------- *)

\* The redirect targets callers pass to create-session.
RedirectUris == {Null, Some("https://app.example/done")}

\* generateState: 24 random bytes; a value never issued before.
generateState == Len(connectSessions) + 1

\* The code verifiers generateCodeVerifier draws (32 random bytes, base64url).
Verifiers == {"verifier-a", "verifier-b"}

\* The challenge of the plain method: the verifier itself.
plainCodeChallenge(verifier) == verifier

\* generateCodeChallenge: the S256 challenge of a verifier.
generateCodeChallenge(verifier) == "S256(" \o verifier \o ")"

\* Line 55: the broker's own callback endpoint, on the origin of the request.
callbackUrl == "https://broker.example/api/connect/callback"

\* url.searchParams.set(name, value): the parameter is added or replaced.
searchParamsSet(url, name, value) == (name :> value) @@ url

\* The extra parameters applied first: what the engine computes replaces them.
authorizationParamsFirst(url, authorizationParams) ==
  [name \in DOMAIN url \cup DOMAIN authorizationParams |->
     IF name \in DOMAIN url THEN url[name] ELSE authorizationParams[name]]

\* Lines 64-66: every extra parameter of the descriptor is set, whatever the
\* URL holds for its name.
withAuthorizationParams(url, authorizationParams) ==
  [name \in DOMAIN url \cup DOMAIN authorizationParams |->
     IF name \in DOMAIN authorizationParams THEN authorizationParams[name] ELSE url[name]]

\* PKCE parameters whenever a challenge is supplied, whatever the descriptor.
pkceIgnoringDescriptor(provider, codeChallenge) ==
  codeChallenge # Null /\ codeChallenge.v # ""

\* Line 58: provider.pkce && codeChallenge (an empty string is falsy).
pkceRequested(provider, codeChallenge) ==
  provider.pkce /\ codeChallenge # Null /\ codeChallenge.v # ""

\* buildAuthorizationUrl: the authorization URL, as the function from the
\* names of its query parameters to their values (base is the URL of the
\* authorization endpoint).  scopes is "" when the caller passes none.
buildAuthorizationUrl(provider, clientId, redirectUri, state, scopes, codeChallenge) ==
  LET url == [base |-> provider.authorizationUrl, client_id |-> clientId,
              redirect_uri |-> redirectUri, state |-> state]
      scopeString == IF scopes # "" THEN scopes ELSE provider.defaultScopes
      scoped == IF scopeString # "" THEN searchParamsSet(url, "scope", scopeString) ELSE url
      typed == IF \/ "response_type" \notin DOMAIN provider.authorizationParams
                  \/ provider.authorizationParams["response_type"] = ""
                 THEN searchParamsSet(scoped, "response_type", "code")
                 ELSE scoped
      challenged == IF pkceRequested(provider, codeChallenge)
                      THEN searchParamsSet(
                             searchParamsSet(typed, "code_challenge", codeChallenge.v),
                             "code_challenge_method", "S256")
                      ELSE typed IN
  withAuthorizationParams(challenged, provider.authorizationParams)

\* The extra authorization parameters descriptors may have: none, a
\* parameter the engine does not compute (notion's owner), and parameters
\* the engine computes.
AuthorizationParamSets ==
  {NoParams,
   [owner |-> "user"],
   [response_type |-> "token"],
   [response_type |-> ""],
   [code_challenge_method |-> "plain"],
   [code_challenge |-> "fixed", code_challenge_method |-> "plain"],
   [redirect_uri |-> "https://other.example/callback", client_id |-> "other"],
   [state |-> "fixed", scope |-> "all", response_type |-> "code"]}

\* Descriptors of the ProviderConfig type.
Descriptors ==
  [key : {"acme"}, refreshUrl : {Null},
   authorizationUrl : {"https://acme.example/oauth/authorize"},
   tokenUrl : {"https://acme.example/oauth/token"},
   defaultScopes : {"", "read"},
   authorizationParams : AuthorizationParamSets,
   pkce : BOOLEAN]

\* The inputs of buildAuthorizationUrl (AuthUrlParams without the provider).
AuthUrlInputs ==
  [clientId : {"client"}, redirectUri : {callbackUrl}, state : {"state-1"},
   scopes : {"", "repo"},
   codeChallenge : {Null, Some(""), Some("S256(verifier-a)")}]

\* buildAuthorizationUrl applied to a descriptor and an input.
BuildAuthorizationUrl(provider, input) ==
  /\ response' = [endpoint |-> "authUrl", provider |-> provider, input |-> input,
                  url |-> buildAuthorizationUrl(provider, input.clientId, input.redirectUri,
                                                input.state, input.scopes,
                                                input.codeChallenge)]
  /\ UNCHANGED <<limiter, now, history, providerCredentials, sc, connectSessions, connections, cb, tk,
                 completions, raced>>

\* The authorization URL sent back to the caller's redirectUri when given.
sessionAuthUrlToCaller(resolved, redirectUri, state, verifier) ==
  buildAuthorizationUrl(resolved.config, resolved.clientId,
                        IF redirectUri # Null THEN redirectUri.v ELSE callbackUrl,
                        state, resolved.scopes,
                        IF resolved.config.pkce
                          THEN Some(generateCodeChallenge(verifier)) ELSE Null)

\* Lines 46-65: PKCE and the authorization URL of a new session.
sessionAuthUrl(resolved, redirectUri, state, verifier) ==
  buildAuthorizationUrl(resolved.config, resolved.clientId, callbackUrl, state, resolved.scopes,
                        IF resolved.config.pkce
                          THEN Some(generateCodeChallenge(verifier)) ELSE Null)

\* A response of create-session, with the body of its request.
sessionJson(request, status, authUrl, expiresAt, error) ==
  [endpoint |-> "sessions", request |-> request, status |-> status, authUrl |-> authUrl,
   expiresAt |-> expiresAt, error |-> error]

\* POST /api/connect/sessions.
CreateSession(authorization, providerKey, connectionId, redirectUri, verifier, limit) ==
  LET request == [authorization |-> authorization, provider |-> providerKey,
                  connectionId |-> connectionId,
                  redirectUri |-> redirectUri] IN
  /\ IF providerKey = "" \/ connectionId = ""
       THEN /\ response' = sessionJson(request, 400, Null, Null,
                                       "Missing required fields: provider, connectionId")
            /\ UNCHANGED <<connectSessions, completions>>
     ELSE IF resolveProvider(providerKey) = Null
       THEN /\ response' = sessionJson(request, 404, Null, Null,
                 "Provider \"" \o providerKey \o "\" is not configured or not enabled")
            /\ UNCHANGED <<connectSessions, completions>>
     ELSE /\ Len(connectSessions) < limit
          /\ connectSessions' = Append(connectSessions,
               [id |-> Len(connectSessions) + 1,
                providerKey |-> providerKey,
                connectionId |-> connectionId,
                state |-> generateState,
                codeVerifier |-> IF resolveProvider(providerKey).config.pkce
                                   THEN Some(verifier) ELSE Null,
                status |-> "pending",
                redirectUri |-> redirectUri,
                createdAt |-> now,
                expiresAt |-> now + SessionTtl])
          /\ completions' = completions @@ (Len(connectSessions) + 1 :> 0)
          /\ response' = sessionJson(request, 200,
               Some(sessionAuthUrl(resolveProvider(providerKey), redirectUri,
                                   generateState, verifier)),
               Some(now + SessionTtl), "")
  /\ UNCHANGED <<limiter, now, history, providerCredentials, sc, connections, cb, tk, raced>>

(* ------------------------------ connections ---------------------------- *)

\* The rows of a (providerKey, connectionId) pair.
rowsOf(providerKey, connectionId) ==
  {r \in connections : r.providerKey = providerKey /\ r.connectionId = connectionId}

\* uuid defaultRandom(): an id no row has and no request in flight holds.
freshRowId ==
  CHOOSE i \in 1 .. (Cardinality(connections) + Cardinality(DOMAIN cb) + Cardinality(DOMAIN tk) + 1) :
    /\ \A r \in connections : r.id # i
    /\ \A p \in DOMAIN cb : cb[p].existing # i
    /\ \A q \in DOMAIN tk : tk[q].rowId # i

\* A table without the unique index: every insert is admitted.
noUniqueIndex(providerKey, connectionId) == TRUE

\* connections_provider_connection_idx: the unique index admits the insert.
uniqueIndexAdmits(providerKey, connectionId) == rowsOf(providerKey, connectionId) = {}

\* The pairs connections are kept for.
Pairs == ProviderKeys \X ConnectionIds

noHistory ==
  [stored |-> Null, disconnected |-> FALSE, wroteSince |-> FALSE, completedSince |-> FALSE]

\* A response of the connection route (status and disconnect); details are
\* the columns of the row the status read returns.
connectionJson(endpoint, authorization, provider, connectionId, status, connected, error, details) ==
  [endpoint |-> endpoint, authorization |-> authorization, provider |-> provider,
   connectionId |-> connectionId, status |-> status, connected |-> connected,
   error |-> error, details |-> details]

\* Lines 246-261 and 311-327: the filters of the connection route; Null when
\* the request passes, else the status and error answered.
connectionFilter(authorization, providerKey, connectionId) ==
  IF verifyApiKey(OPENAUTH_API_KEY, authorization) # Null
    THEN Some([status |-> 401, error |-> verifyApiKey(OPENAUTH_API_KEY, authorization).v])
  ELSE IF validateProviderKey(providerKey) = Null \/ validateConnectionId(connectionId) = Null
    THEN Some([status |-> 400, error |-> "Invalid provider or connectionId"])
  ELSE Null

\* The disconnect that answers without deleting.
DisconnectWithoutDelete(authorization, providerKey, connectionId) ==
  /\ IF rowsOf(providerKey, connectionId) = {}
       THEN /\ response' = connectionJson("disconnect", authorization, providerKey,
                                          connectionId, 404, FALSE, "Connection not found", Null)
            /\ UNCHANGED history
       ELSE /\ response' = connectionJson("disconnect", authorization, providerKey,
                                          connectionId, 200, FALSE, "", Null)
            /\ history' = [history EXCEPT ![<<providerKey, connectionId>>] =
                 [noHistory EXCEPT !.disconnected = TRUE]]
  /\ UNCHANGED <<limiter, now, providerCredentials, sc, connectSessions, connections, cb, tk,
                 completions, raced>>

\* The disconnect whose delete has no condition on the pair.
DisconnectEveryRow(authorization, providerKey, connectionId) ==
  /\ connectionFilter(authorization, providerKey, connectionId) = Null
  /\ connections' = {}
  /\ IF connections = {}
       THEN /\ response' = connectionJson("disconnect", authorization, providerKey,
                                          connectionId, 404, FALSE, "Connection not found", Null)
            /\ UNCHANGED history
       ELSE /\ response' = connectionJson("disconnect", authorization, providerKey,
                                          connectionId, 200, FALSE, "", Null)
            /\ history' = [history EXCEPT ![<<providerKey, connectionId>>] =
                 [noHistory EXCEPT !.disconnected = TRUE]]
  /\ UNCHANGED <<limiter, now, providerCredentials, sc, connectSessions, cb, tk, completions, raced>>

\* DELETE /api/connections/:provider/:connectionId: 401 or 400 from the
\* filters, 404 when no row was deleted.
Disconnect(authorization, providerKey, connectionId) ==
  /\ LET filtered == connectionFilter(authorization, providerKey, connectionId) IN
     IF filtered # Null
       THEN /\ response' = connectionJson("disconnect", authorization, providerKey,
                                          connectionId, filtered.v.status, FALSE,
                                          filtered.v.error, Null)
            /\ UNCHANGED <<connections, history>>
     ELSE IF rowsOf(providerKey, connectionId) = {}
       THEN /\ response' = connectionJson("disconnect", authorization, providerKey,
                                          connectionId, 404, FALSE, "Connection not found", Null)
            /\ UNCHANGED <<connections, history>>
     ELSE /\ connections' = connections \ rowsOf(providerKey, connectionId)
          /\ response' = connectionJson("disconnect", authorization, providerKey,
                                        connectionId, 200, FALSE, "", Null)
          /\ history' = [history EXCEPT ![<<providerKey, connectionId>>] =
               [noHistory EXCEPT !.disconnected = TRUE]]
  /\ UNCHANGED <<limiter, now, providerCredentials, sc, connectSessions, cb, tk, completions, raced>>

\* The status read that returns the row it found as it is.
connectionStatusWholeRow(table, authorization, providerKey, connectionId) ==
  LET found == {r \in table : r.providerKey = providerKey /\ r.connectionId = connectionId} IN
  IF found = {}
    THEN connectionJson("connection", authorization, providerKey, connectionId, 200, FALSE,
                        "", Null)
    ELSE connectionJson("connection", authorization, providerKey, connectionId, 200, TRUE, "",
                        Some(CHOOSE r \in found : TRUE))

\* Lines 246-309: the answer of the status read on a connections table: the
\* filters, the select of seven columns of the pair's row (limit 1), and
\* the response built from them.
connectionStatus(table, authorization, providerKey, connectionId) ==
  LET found == {r \in table : r.providerKey = providerKey /\ r.connectionId = connectionId}
      filtered == connectionFilter(authorization, providerKey, connectionId) IN
  IF filtered # Null
    THEN connectionJson("connection", authorization, providerKey, connectionId,
                        filtered.v.status, FALSE, filtered.v.error, Null)
  ELSE IF found = {}
    THEN connectionJson("connection", authorization, providerKey, connectionId, 200, FALSE,
                        "", Null)
  ELSE LET connection == CHOOSE r \in found : TRUE IN
       connectionJson("connection", authorization, connection.providerKey,
                      connection.connectionId, 200, TRUE, "",
                      Some([scopes |-> connection.scopes,
                            tokenExpiresAt |-> connection.tokenExpiresAt,
                            createdAt |-> connection.createdAt,
                            updatedAt |-> connection.updatedAt]))

\* GET /api/connections/:provider/:connectionId: the connection status.
GetConnection(authorization, providerKey, connectionId) ==
  /\ response' = connectionStatus(connections, authorization, providerKey, connectionId)
  /\ UNCHANGED <<limiter, now, history, providerCredentials, sc, connectSessions, connections, cb, tk,
                 completions, raced>>

(* ------------------------------ the callback --------------------------- *)

\* What the provider's token endpoint may answer on success.
TokenResponses ==
  [access_token : {<<1>>, <<2>>},
   refresh_token : {Null, Some(<<3>>)},
   expires_in : {Null, Some(1), Some(2)},
   scope : {Null}]

\* JSON.stringify of a token response, as bytes: the fields it has, in order.
stringify(tokenResponse) ==
  tokenResponse.access_token
    \o (IF tokenResponse.refresh_token # Null THEN tokenResponse.refresh_token.v ELSE <<>>)
    \o (IF tokenResponse.expires_in # Null THEN <<tokenResponse.expires_in.v>> ELSE <<>>)

cbIdle ==
  [pc |-> "idle", state |-> Null, session |-> 0, scopes |-> "",
   tokenResponse |-> Null, validUntil |-> Null,
   accessTokenEnc |-> Null, refreshTokenEnc |-> Null, rawCredentials |-> Null,
   tokenExpiresAt |-> Null,
   existing |-> 0]

\* new URL(uri) throws: the string is no URL.
invalidUrl(redirectUri) == redirectUri # Null /\ urlProtocol(redirectUri.v) = Null

\* redirectWithError: to the caller's redirectUri when given, else to the
\* generic status page, with status=error and the message.  new URL throws
\* on a redirectUri that is no URL; the handler's catch (lines 158-162) then
\* redirects to the generic page with the message of that error.
redirectWithError(state, redirectUri, error) ==
  IF invalidUrl(redirectUri)
    THEN [endpoint |-> "callback", state |-> state, target |-> Null,
          status |-> "error", error |-> "Invalid URL", upstream |-> Null]
    ELSE [endpoint |-> "callback", state |-> state, target |-> redirectUri,
          status |-> "error", error |-> error, upstream |-> Null]

\* Lines 146-157: to the caller's redirectUri when stored, else to the
\* success page; on a redirectUri that is no URL new URL throws and the
\* catch redirects with the error.
redirectSuccess(state, redirectUri) ==
  IF invalidUrl(redirectUri)
    THEN redirectWithError(state, Null, "Invalid URL")
    ELSE [endpoint |-> "callback", state |-> state, target |-> redirectUri,
          status |-> "success", error |-> "", upstream |-> Null]

\* The requests the callback endpoint receives.
CallbackRequests ==
  [error : {Null, Some("access_denied")},
   code : {Null, Some("abc")},
   state : {Null} \cup {Some(n) : n \in 0 .. MaxSessions}]

\* The lookup without its status condition (state = ? alone).
sessionsByState(state) ==
  {i \in DOMAIN connectSessions : connectSessions[i].state = state}

\* The lookup that also matches sessions already marked expired.
pendingOrExpiredByState(state) ==
  {i \in DOMAIN connectSessions :
     connectSessions[i].state = state /\ connectSessions[i].status \in {"pending", "expired"}}

\* The pending sessions a state value matches (state = ? AND status = 'pending').
pendingByState(state) ==
  {i \in DOMAIN connectSessions :
     connectSessions[i].state = state /\ connectSessions[i].status = "pending"}

\* The expiry test with the deadline itself excluded.
sessionExpiredAtDeadline(session) == now >= session.expiresAt

\* new Date() > session.expiresAt
sessionExpired(session) == now > session.expiresAt

\* GET /api/connect/callback, lines 16-49: the parameters and the lookup.
CbStart(p, req) ==
  /\ cb[p].pc = "idle"
  /\ IF req.error # Null
       THEN /\ response' = redirectWithError(req.state, Null, req.error.v)
            /\ UNCHANGED <<cb, raced>>
     ELSE IF req.code = Null \/ req.state = Null
       THEN /\ response' = redirectWithError(req.state, Null, "Missing code or state parameter")
            /\ UNCHANGED <<cb, raced>>
     ELSE IF pendingByState(req.state.v) = {}
       THEN /\ response' = redirectWithError(req.state, Null, "Invalid or expired session")
            /\ UNCHANGED <<cb, raced>>
     ELSE \E i \in pendingByState(req.state.v) :
            /\ cb' = [cb EXCEPT ![p] = [cbIdle EXCEPT !.pc = "check", !.state = req.state,
                        !.session = i]]
            /\ raced' = IF \E q \in DOMAIN cb : q # p /\ cb[q].session = i
                          THEN raced \cup {i} ELSE raced
            /\ response' = Null
  /\ UNCHANGED <<limiter, now, history, providerCredentials, sc, connectSessions, connections, tk, completions>>

\* Lines 51-68: the expiry check (writing 'expired') and resolveProvider.
CbCheck(p) ==
  /\ cb[p].pc = "check"
  /\ LET session == connectSessions[cb[p].session] IN
     IF sessionExpired(session)
       THEN /\ connectSessions' = [connectSessions EXCEPT ![session.id].status = "expired"]
            /\ response' = redirectWithError(cb[p].state, session.redirectUri, "Session expired")
            /\ cb' = [cb EXCEPT ![p] = cbIdle]
     ELSE IF resolveProvider(session.providerKey) = Null
       THEN /\ response' = redirectWithError(cb[p].state, session.redirectUri,
                                             "Provider not configured")
            /\ cb' = [cb EXCEPT ![p] = cbIdle]
            /\ UNCHANGED connectSessions
     ELSE /\ cb' = [cb EXCEPT ![p].pc = "exchange",
                      ![p].scopes = resolveProvider(session.providerKey).scopes]
          /\ response' = Null
          /\ UNCHANGED connectSessions
  /\ UNCHANGED <<limiter, now, history, providerCredentials, sc, connections, tk, completions, raced>>

\* How the code exchange fails: the token endpoint answers with a
\* non-success status and a body, or the fetch itself throws.
ExchangeFailures ==
  {[kind |-> "http", status |-> "400", body |-> "bad_verification_code"],
   [kind |-> "network", status |-> "", body |-> ""]}

\* oauth.ts lines 124-129: the message of the error exchangeCodeForTokens
\* throws; a failed fetch throws its own message.
exchangeError(failure) ==
  IF failure.kind = "http"
    THEN "Token exchange failed (" \o failure.status \o "): " \o failure.body
    ELSE "fetch failed"

\* The failed exchange that also takes the session out of the pending ones.
CbExchangeFailExpiring(p, failure) ==
  /\ cb[p].pc = "exchange"
  /\ response' = [redirectWithError(cb[p].state, Null, exchangeError(failure))
                   EXCEPT !.upstream = Some(failure)]
  /\ connectSessions' = [connectSessions EXCEPT ![cb[p].session].status = "expired"]
  /\ cb' = [cb EXCEPT ![p] = cbIdle]
  /\ UNCHANGED <<limiter, now, history, providerCredentials, sc, connections, tk, completions, raced>>

\* Lines 73-81 and 158-162: the exchange throws; the catch redirects with
\* redirectWithError(request, null, err.message).  upstream records what the
\* provider answered.
CbExchangeFail(p, failure) ==
  /\ cb[p].pc = "exchange"
  /\ response' = [redirectWithError(cb[p].state, Null, exchangeError(failure))
                   EXCEPT !.upstream = Some(failure)]
  /\ cb' = [cb EXCEPT ![p] = cbIdle]
  /\ UNCHANGED <<limiter, now, history, providerCredentials, sc, connectSessions, connections, tk,
                 completions, raced>>

\* The expiry with expires_in taken for milliseconds: the token is expired
\* as soon as it is received.
expiryOfMillis(tokenResponse) ==
  IF TruthyNumber(tokenResponse.expires_in)
    THEN Some(now)
    ELSE Null

\* Lines 83-89: the absolute expiry of a token response received now.
expiryOf(tokenResponse) ==
  IF TruthyNumber(tokenResponse.expires_in)
    THEN Some(now + tokenResponse.expires_in.v)
    ELSE Null

\* Lines 73-96: the token response arrives; expiry and encryption.
CbExchangeOk(p, tokenResponse, iv) ==
  /\ cb[p].pc = "exchange"
  /\ cb' = [cb EXCEPT ![p].pc = "select",
              ![p].tokenResponse = Some(tokenResponse),
              ![p].validUntil = IF tokenResponse.expires_in # Null
                                  THEN Some(now + tokenResponse.expires_in.v) ELSE Null,
              ![p].tokenExpiresAt = expiryOf(tokenResponse),
              ![p].accessTokenEnc = encrypt(tokenResponse.access_token, iv),
              ![p].rawCredentials = encrypt(stringify(tokenResponse), iv),
              ![p].refreshTokenEnc =
                 IF TruthyBytes(tokenResponse.refresh_token)
                   THEN encrypt(tokenResponse.refresh_token.v, iv)
                   ELSE Null,
              ![p].scopes = IF tokenResponse.scope # Null
                              THEN tokenResponse.scope.v ELSE cb[p].scopes]
  /\ response' = Null
  /\ UNCHANGED <<limiter, now, history, providerCredentials, sc, connectSessions, connections, tk,
                 completions, raced>>

\* The select that marks the session completed before the connection write.
CbSelectCompleting(p) ==
  /\ cb[p].pc = "select"
  /\ LET session == connectSessions[cb[p].session]
         found == rowsOf(session.providerKey, session.connectionId) IN
     /\ connectSessions' = [connectSessions EXCEPT ![session.id].status = "completed"]
     /\ IF found = {}
          THEN cb' = [cb EXCEPT ![p].pc = "write", ![p].existing = 0]
          ELSE \E r \in found : cb' = [cb EXCEPT ![p].pc = "write", ![p].existing = r.id]
  /\ response' = Null
  /\ UNCHANGED <<limiter, now, history, providerCredentials, sc, connections, tk, completions, raced>>

\* Lines 98-108: select the existing row of the session's pair.
CbSelect(p) ==
  /\ cb[p].pc = "select"
  /\ LET session == connectSessions[cb[p].session]
         found == rowsOf(session.providerKey, session.connectionId) IN
     IF found = {}
       THEN cb' = [cb EXCEPT ![p].pc = "write", ![p].existing = 0]
       ELSE \E r \in found : cb' = [cb EXCEPT ![p].pc = "write", ![p].existing = r.id]
  /\ response' = Null
  /\ UNCHANGED <<limiter, now, history, providerCredentials, sc, connectSessions, connections, tk,
                 completions, raced>>

\* Lines 112-122: the update of the existing row, by id.
updateConnection(p) ==
  {IF r.id = cb[p].existing
     THEN [r EXCEPT !.accessTokenEnc = cb[p].accessTokenEnc,
                    !.refreshTokenEnc = cb[p].refreshTokenEnc,
                    !.tokenExpiresAt = cb[p].tokenExpiresAt,
                    !.scopes = cb[p].scopes,
                    !.rawCredentials = cb[p].rawCredentials,
                    !.updatedAt = now]
     ELSE r : r \in connections}

\* Lines 125-133: the row a callback inserts.
newConnection(p) ==
  [id |-> freshRowId,
   providerKey |-> connectSessions[cb[p].session].providerKey,
   connectionId |-> connectSessions[cb[p].session].connectionId,
   accessTokenEnc |-> cb[p].accessTokenEnc,
   refreshTokenEnc |-> cb[p].refreshTokenEnc,
   tokenExpiresAt |-> cb[p].tokenExpiresAt,
   scopes |-> cb[p].scopes,
   rawCredentials |-> cb[p].rawCredentials,
   createdAt |-> now,
   updatedAt |-> now]

\* History: callback p wrote the row of its pair; validUntil is the time its
\* token response was received plus the response's expires_in.
callbackWrote(p) ==
  LET session == connectSessions[cb[p].session]
      pair == <<session.providerKey, session.connectionId>> IN
  [history EXCEPT ![pair] =
     [stored |-> Some([accessToken |-> cb[p].tokenResponse.v.access_token,
                       validUntil |-> cb[p].validUntil]),
      disconnected |-> history[pair].disconnected,
      wroteSince |-> history[pair].disconnected,
      completedSince |-> history[pair].completedSince]]

\* History: callback p completed its session.
callbackCompleted(p) ==
  LET session == connectSessions[cb[p].session]
      pair == <<session.providerKey, session.connectionId>> IN
  [history EXCEPT ![pair].completedSince = history[pair].disconnected]

\* Lines 110-134: update or insert; an insert the unique index rejects
\* throws, and the catch redirects with the error.
CbWrite(p) ==
  /\ cb[p].pc = "write"
  /\ LET session == connectSessions[cb[p].session] IN
     IF cb[p].existing # 0
       THEN /\ connections' = updateConnection(p)
            /\ cb' = [cb EXCEPT ![p].pc = "complete"]
            /\ response' = Null
            /\ history' = IF \E r \in connections : r.id = cb[p].existing
                             THEN callbackWrote(p) ELSE history
     ELSE IF uniqueIndexAdmits(session.providerKey, session.connectionId)
       THEN /\ connections' = connections \cup {newConnection(p)}
            /\ cb' = [cb EXCEPT ![p].pc = "complete"]
            /\ response' = Null
            /\ history' = callbackWrote(p)
     ELSE /\ response' = redirectWithError(cb[p].state, Null, "duplicate key value")
          /\ cb' = [cb EXCEPT ![p] = cbIdle]
          /\ UNCHANGED <<connections, history>>
  /\ UNCHANGED <<limiter, now, providerCredentials, sc, connectSessions, tk, completions, raced>>

\* The last step without the write of 'completed'.
CbCompleteKeepStatus(p) ==
  /\ cb[p].pc = "complete"
  /\ LET session == connectSessions[cb[p].session] IN
     /\ completions' = [completions EXCEPT ![session.id] = @ + 1]
     /\ response' = redirectSuccess(cb[p].state, session.redirectUri)
     /\ cb' = [cb EXCEPT ![p] = cbIdle]
  /\ history' = callbackCompleted(p)
  /\ UNCHANGED <<limiter, now, providerCredentials, sc, connectSessions, connections, tk, raced>>

\* Lines 136-157: mark the session completed (by id) and redirect.
CbComplete(p) ==
  /\ cb[p].pc = "complete"
  /\ LET session == connectSessions[cb[p].session] IN
     /\ connectSessions' = [connectSessions EXCEPT ![session.id].status = "completed"]
     /\ completions' = [completions EXCEPT ![session.id] = @ + 1]
     /\ response' = redirectSuccess(cb[p].state, session.redirectUri)
     /\ cb' = [cb EXCEPT ![p] = cbIdle]
  /\ history' = callbackCompleted(p)
  /\ UNCHANGED <<limiter, now, providerCredentials, sc, connections, tk, raced>>

\* The message of the error a database call throws when it fails.
databaseError == "Connection terminated unexpectedly"

\* Lines 158-162: an awaited database call of the handler (resolveProvider,
\* the select, the connection write or the session update) throws instead
\* of returning; nothing is written and the catch redirects with the error.
CbThrow(p) ==
  /\ cb[p].pc \in {"check", "select", "write", "complete"}
  /\ response' = redirectWithError(cb[p].state, Null, databaseError)
  /\ cb' = [cb EXCEPT ![p] = cbIdle]
  /\ UNCHANGED <<limiter, now, history, providerCredentials, sc, connectSessions, connections, tk,
                 completions, raced>>

(* ------------------------------ token reads ---------------------------- *)

tkIdle ==
  [pc |-> "idle", authorization |-> Null, provider |-> "", connectionId |-> "", rowId |-> 0,
   connection |-> Null, tokenResponse |-> Null,
   accessToken |-> <<>>, newAccessTokenEnc |-> Null, newRefreshTokenEnc |-> Null,
   newRawCredentials |-> Null,
   newExpiresAt |-> Null, updatedAt |-> 0]

\* A response of the token endpoint; logged is what the handler wrote to
\* the error log on the way.
tokenJson(authorization, provider, connectionId, status, accessToken, expiresAt, refreshed, error, logged) ==
  [endpoint |-> "token", authorization |-> authorization, provider |-> provider, connectionId |-> connectionId,
   status |-> status, accessToken |-> accessToken, expiresAt |-> expiresAt,
   refreshed |-> refreshed, error |-> error, logged |-> logged]

\* The expiry test with the expiry instant itself excluded.
isExpiredStrict(connection) ==
  connection.tokenExpiresAt # Null /\ now > connection.tokenExpiresAt.v

\* Lines 46-48: tokenExpiresAt is set and now >= tokenExpiresAt.
isExpired(connection) ==
  connection.tokenExpiresAt # Null /\ now >= connection.tokenExpiresAt.v

\* Line 50: refresh when expired and a refresh token is stored.
needsRefresh(connection) == isExpired(connection) /\ connection.refreshTokenEnc # Null

\* A refresh that never checks for the refresh endpoint.
refreshAlwaysSupported(config) == FALSE

\* oauth.ts line 159: the descriptor has no refresh endpoint.
refreshUnsupported(config) == config.refreshUrl = Null

\* Lines 105-119: the stored access token as it is; a decrypt that throws
\* is answered 500.
returnStored(authorization, provider, connectionId, connection, logged) ==
  IF decrypt(connection.accessTokenEnc).ok
    THEN tokenJson(authorization, provider, connectionId, 200, decrypt(connection.accessTokenEnc).value,
                   connection.tokenExpiresAt, FALSE, "", logged)
    ELSE tokenJson(authorization, provider, connectionId, 500, <<>>, Null, FALSE,
                   "Internal server error", logged)

\* GET /api/connections/:provider/:connectionId/token, lines 22-67: the
\* select, the refresh decision, resolveProvider and the refresh request.
TkStart(q, authorization, provider, connectionId) ==
  /\ tk[q].pc = "idle"
  /\ IF rowsOf(provider, connectionId) = {}
       THEN /\ response' = tokenJson(authorization, provider, connectionId, 404, <<>>, Null, FALSE,
                                     "Connection not found", "")
            /\ UNCHANGED tk
     ELSE \E connection \in rowsOf(provider, connectionId) :
       IF ~needsRefresh(connection)
         THEN /\ response' = returnStored(authorization, provider, connectionId, connection, "")
              /\ UNCHANGED tk
       ELSE IF resolveProvider(provider) = Null
         THEN /\ response' = tokenJson(authorization, provider, connectionId, 500, <<>>, Null, FALSE,
                                       "Provider not configured", "")
              /\ UNCHANGED tk
       ELSE IF \/ ~decrypt(connection.refreshTokenEnc).ok
               \/ refreshUnsupported(resolveProvider(provider).config)
         THEN /\ response' = returnStored(authorization, provider, connectionId, connection,
                                          "Token refresh failed")
              /\ UNCHANGED tk
       ELSE /\ tk' = [tk EXCEPT ![q] = [tkIdle EXCEPT !.pc = "refreshing", !.authorization = authorization,
                        !.provider = provider, !.connectionId = connectionId,
                        !.rowId = connection.id, !.connection = connection]]
            /\ response' = Null
  /\ UNCHANGED <<limiter, now, history, providerCredentials, sc, connectSessions, connections, cb,
                 completions, raced>>

\* Lines 99-112 and oauth.ts 193-196: the refresh endpoint rejects the
\* request or the fetch fails; the handler logs and returns the stored token.
TkRefreshFail(q) ==
  /\ tk[q].pc = "refreshing"
  /\ response' = returnStored(tk[q].authorization, tk[q].provider, tk[q].connectionId, tk[q].connection,
                              "Token refresh failed")
  /\ tk' = [tk EXCEPT ![q] = tkIdle]
  /\ UNCHANGED <<limiter, now, history, providerCredentials, sc, connectSessions, connections, cb,
                 completions, raced>>

\* The refresh token column cleared when the response has no refresh token.
newRefreshTokenEncOrNull(connection, tokenResponse, iv) ==
  IF TruthyBytes(tokenResponse.refresh_token)
    THEN encrypt(tokenResponse.refresh_token.v, iv)
    ELSE Null

\* Lines 79-81: the new refresh token encrypted, or the column as it was read
\* when the response has none.
newRefreshTokenEnc(connection, tokenResponse, iv) ==
  IF TruthyBytes(tokenResponse.refresh_token)
    THEN encrypt(tokenResponse.refresh_token.v, iv)
    ELSE connection.refreshTokenEnc

\* Lines 62-90: the refresh response arrives; new expiry, encryption (keeping
\* the stored refresh token when the response has none) and the update's
\* updatedAt, all taken before the update is awaited.
TkRefreshOk(q, tokenResponse, iv) ==
  /\ tk[q].pc = "refreshing"
  /\ tk' = [tk EXCEPT ![q].pc = "write",
              ![q].tokenResponse = Some(tokenResponse),
              ![q].accessToken = tokenResponse.access_token,
              ![q].newExpiresAt = expiryOf(tokenResponse),
              ![q].updatedAt = now,
              ![q].newAccessTokenEnc = encrypt(tokenResponse.access_token, iv),
              ![q].newRawCredentials = encrypt(stringify(tokenResponse), iv),
              ![q].newRefreshTokenEnc =
                 newRefreshTokenEnc(tk[q].connection, tokenResponse, iv)]
  /\ response' = Null
  /\ UNCHANGED <<limiter, now, history, providerCredentials, sc, connectSessions, connections, cb,
                 completions, raced>>

\* The update without the new expiry.
refreshConnectionKeepExpiry(q) ==
  {IF r.id = tk[q].rowId
     THEN [r EXCEPT !.accessTokenEnc = tk[q].newAccessTokenEnc,
                    !.refreshTokenEnc = tk[q].newRefreshTokenEnc,
                    !.rawCredentials = tk[q].newRawCredentials,
                    !.updatedAt = tk[q].updatedAt]
     ELSE r : r \in connections}

\* The update that writes only while the row is as it was read.
refreshConnectionIfUnchanged(q) ==
  {IF r.id = tk[q].rowId /\ r = tk[q].connection
     THEN [r EXCEPT !.accessTokenEnc = tk[q].newAccessTokenEnc,
                    !.refreshTokenEnc = tk[q].newRefreshTokenEnc,
                    !.rawCredentials = tk[q].newRawCredentials,
                    !.tokenExpiresAt = tk[q].newExpiresAt,
                    !.updatedAt = tk[q].updatedAt]
     ELSE r : r \in connections}

\* Lines 83-92: the update of the row read at the start, by id.
refreshConnection(q) ==
  {IF r.id = tk[q].rowId
     THEN [r EXCEPT !.accessTokenEnc = tk[q].newAccessTokenEnc,
                    !.refreshTokenEnc = tk[q].newRefreshTokenEnc,
                    !.rawCredentials = tk[q].newRawCredentials,
                    !.tokenExpiresAt = tk[q].newExpiresAt,
                    !.updatedAt = tk[q].updatedAt]
     ELSE r : r \in connections}

\* Lines 83-98: write the refreshed tokens and answer refreshed: true.
TkWrite(q) ==
  /\ tk[q].pc = "write"
  /\ connections' = refreshConnection(q)
  /\ response' = tokenJson(tk[q].authorization, tk[q].provider, tk[q].connectionId, 200, tk[q].accessToken,
                           tk[q].newExpiresAt, TRUE, "", "")
  /\ tk' = [tk EXCEPT ![q] = tkIdle]
  /\ history' = IF \E r \in connections : r.id = tk[q].rowId
                   THEN [history EXCEPT ![<<tk[q].provider, tk[q].connectionId>>].stored = Null]
                   ELSE history
  /\ UNCHANGED <<limiter, now, providerCredentials, sc, connectSessions, cb, completions, raced>>

(* ------------------------------ rate limiter --------------------------- *)

\* validate.ts line 87: one minute.
CLEANUP_INTERVAL == 60000

\* One step of the limiter's clock: half a minute.
ClockStep == 30000

\* The Map of a fresh instance.
NoEntries == [key \in {} |-> [count |-> 0, resetAt |-> 0]]

\* The RateLimitConfig values routes pass: windows of one minute, with
\* limits small enough to be reached.
LooseConfig == [limit |-> 2, windowMs |-> 60000]

TightConfig == [limit |-> 1, windowMs |-> 60000]

\* The requests the limiter sees: with or without x-forwarded-for and
\* x-real-ip, on two paths.
LimitedRequests ==
  [forwardedFor : {Null, Some("10.0.0.1")}, realIp : {Null},
   pathname : {"/api/providers", "/api/providers/github/credentials"}]

\* The config the route of a path passes.
configOf(pathname) ==
  IF pathname = "/api/providers/github/credentials" THEN TightConfig ELSE LooseConfig

\* getClientIp: x-forwarded-for (one address), else x-real-ip, else 'unknown'.
getClientIp(request) ==
  IF request.forwardedFor # Null /\ request.forwardedFor.v # "" THEN request.forwardedFor.v
  ELSE IF request.realIp # Null /\ request.realIp.v # "" THEN request.realIp.v
  ELSE "unknown"

\* The cleanup that runs at every check and drops every entry.
cleanupEverything(entries, last, at) ==
  [store |-> NoEntries, lastCleanup |-> at]

\* cleanup: at most once per CLEANUP_INTERVAL, delete the entries whose
\* resetAt is past.
cleanup(entries, last, at) ==
  IF at - last < CLEANUP_INTERVAL
    THEN [store |-> entries, lastCleanup |-> last]
    ELSE [store |-> [key \in {k \in DOMAIN entries : ~(at > entries[k].resetAt)} |->
                       entries[key]],
          lastCleanup |-> at]

\* Math.ceil(ms / 1000)
ceilSeconds(ms) == (ms + 999) \div 1000

\* checkRateLimit: cleanup, then a new window for a key without entry or
\* past its resetAt, else count + 1 and 429 once count exceeds the limit.
CheckRateLimit(request, config) ==
  LET cleaned == cleanup(store, lastCleanup, clock)
      key == getClientIp(request) \o ":" \o request.pathname
      fresh == key \notin DOMAIN cleaned.store \/ clock > cleaned.store[key].resetAt
      entry == IF fresh THEN [count |-> 1, resetAt |-> clock + config.windowMs]
               ELSE [cleaned.store[key] EXCEPT !.count = @ + 1]
      limited == ~fresh /\ entry.count > config.limit IN
  /\ Len(checked) < MaxRequests
  /\ store' = (key :> entry) @@ cleaned.store
  /\ lastCleanup' = cleaned.lastCleanup
  /\ checked' = Append(checked, [key |-> key, at |-> clock, config |-> config,
                                    admitted |-> ~limited])
  /\ response' = IF limited
                   THEN [endpoint |-> "rateLimit", key |-> key, status |-> 429,
                         error |-> "Too many requests. Please try again later.",
                         retryAfter |-> ceilSeconds(entry.resetAt - clock)]
                   ELSE Null
  /\ UNCHANGED <<now, history, providerCredentials, sc, connectSessions, connections, cb, tk,
                 completions, raced, clock>>

\* Time passes for the limiter.
ClockTick ==
  /\ clock < MaxClockSteps * ClockStep
  /\ clock' = clock + ClockStep
  /\ response' = Null
  /\ UNCHANGED <<now, history, providerCredentials, sc, connectSessions, connections, cb, tk,
                 completions, raced, store, lastCleanup, checked>>

(* ---------------------------- specifications --------------------------- *)

\* The state after deployment: empty tables, no request in flight.
InitWith(callbackProcs, tokenProcs, credentialProcs) ==
  /\ now = 0
  /\ providerCredentials = {}
  /\ sc = [s \in credentialProcs |-> scIdle]
  /\ connectSessions = <<>>
  /\ connections = {}
  /\ cb = [p \in callbackProcs |-> cbIdle]
  /\ tk = [q \in tokenProcs |-> tkIdle]
  /\ response = Null
  /\ completions = <<>>
  /\ raced = {}
  /\ history = [pair \in Pairs |-> noHistory]
  /\ clock = 0
  /\ store = NoEntries
  /\ lastCleanup = 0
  /\ checked = <<>>

\* One callback request, step by step.
Callback(p, requests, responses) ==
  \/ \E req \in requests : CbStart(p, req)
  \/ CbCheck(p)
  \/ \E failure \in ExchangeFailures : CbExchangeFail(p, failure)
  \/ \E tokenResponse \in responses, iv \in Nonces : CbExchangeOk(p, tokenResponse, iv)
  \/ CbSelect(p)
  \/ CbWrite(p)
  \/ CbComplete(p)

\* One token read, step by step.
TokenRead(q, keys, responses) ==
  \/ \E key \in keys, id \in ConnectionIds : TkStart(q, Authorized, key, id)
  \/ TkRefreshFail(q)
  \/ \E tokenResponse \in responses, iv \in Nonces : TkRefreshOk(q, tokenResponse, iv)
  \/ TkWrite(q)

\* Callbacks that carry a code and a state.
CodeRequests == {req \in CallbackRequests : req.error = Null /\ req.code # Null /\ req.state # Null}

\* Token responses without optional fields.
PlainResponses ==
  {r \in TokenResponses : r.access_token = <<1>> /\ r.expires_in = Null /\ r.refresh_token = Null}

\* What the token endpoint answers to a code exchange: access token 1.
ExchangeResponses == {r \in TokenResponses : r.access_token = <<1>>}

\* What the refresh endpoint answers: access token 2, no new refresh token.
RefreshResponses ==
  {r \in TokenResponses :
     r.access_token = <<2>> /\ r.refresh_token = Null /\ r.expires_in \in {Null, Some(1)}}

\* Concurrent callbacks on the sessions of one provider.
InitRace == InitWith({1, 2}, {}, {})

NextRace ==
  \/ Tick
  \/ SetCredentials("github")
  \/ CreateSession(Authorized, "github", "user-1", Null, "verifier-a", MaxRacedSessions)
  \/ Disconnect(Authorized, "github", "user-1")
  \/ \E p \in DOMAIN cb : Callback(p, CodeRequests, PlainResponses)

SpecRace == InitRace /\ [][NextRace]_vars

\* Concurrent callbacks, disconnects and the reads of the pair's status and
\* token.
InitDisconnect == InitWith({1, 2}, {1}, {})

NextDisconnect ==
  \/ NextRace
  \/ GetConnection(Authorized, "github", "user-1")
  \/ \E q \in DOMAIN tk : TokenRead(q, {"github"}, RefreshResponses)

SpecDisconnect == InitDisconnect /\ [][NextDisconnect]_vars

\* One callback at a time, one token read at a time, disconnects and the
\* deployer's changes of the credentials, all on one provider.
InitToken == InitWith({1}, {1}, {})

NextToken(key, exchanged) ==
  \/ Tick
  \/ SetCredentials(key)
  \/ DisableCredentials(key)
  \/ CreateSession(Authorized, key, "user-1", Null, "verifier-a", MaxRacedSessions)
  \/ Disconnect(Authorized, key, "user-1")
  \/ \E p \in DOMAIN cb : Callback(p, CodeRequests, exchanged)
  \/ \E q \in DOMAIN tk : TokenRead(q, {key}, RefreshResponses)

\* The token read on a provider with a refresh endpoint, with tokens that
\* live one tick or for ever.
NextRefresh ==
  NextToken("acme", {r \in ExchangeResponses : r.expires_in \in {Null, Some(1)}})

SpecRefresh == InitToken /\ [][NextRefresh]_vars

\* The token read on a provider without a refresh endpoint.
NextNoRefresh ==
  \/ NextToken("github", ExchangeResponses)
  \/ GetConnection(Authorized, "github", "user-1")

SpecNoRefresh == InitToken /\ [][NextNoRefresh]_vars

\* Callbacks one at a time on the sessions of one pair.
InitSeq == InitWith({1}, {}, {})

NextSeq ==
  \/ Tick
  \/ SetCredentials("acme")
  \/ CreateSession(Authorized, "acme", "user-1", Null, "verifier-a", MaxSessions)
  \/ Disconnect(Authorized, "acme", "user-1")
  \/ \E p \in DOMAIN cb : Callback(p, CodeRequests, ExchangeResponses)

SpecSeq == InitSeq /\ [][NextSeq]_vars

\* The provider keys callers name: the registered ones, an unknown one and
\* none.
RequestedProviders == ProviderKeys \cup {"unknown", ""}

\* Sessions requested for every kind of provider, redirect target and
\* verifier.
InitSessions == InitWith({1}, {}, {})

NextSessions ==
  \/ Tick
  \/ \E key \in ProviderKeys : SetCredentials(key)
  \/ \E key \in ProviderKeys : DisableCredentials(key)
  \/ \E key \in RequestedProviders, redirectUri \in RedirectUris, verifier \in Verifiers :
       CreateSession(Authorized, key, "user-1", redirectUri, verifier, MaxSessions)

SpecSessions == InitSessions /\ [][NextSessions]_vars

\* Callbacks one at a time on sessions with and without a redirect target.
InitCallback == InitWith({1}, {}, {})

NextCallback ==
  \/ Tick
  \/ SetCredentials("github")
  \/ DisableCredentials("github")
  \/ \E redirectUri \in RedirectUris :
       CreateSession(Authorized, "github", "user-1", redirectUri, "verifier-a", MaxSessions)
  \/ \E p \in DOMAIN cb : Callback(p, CodeRequests, PlainResponses)

SpecCallback == InitCallback /\ [][NextCallback]_vars

\* What callers may send to create-session: provider keys, connection ids
\* and redirect targets, well-formed and not.
SentProviders == {"github", "git hub"}

SentConnectionIds == {"user-1", "user 1"}

SentRedirectUris ==
  {Null, Some("https://app.example/done"), Some("javascript:alert(1)"),
   Some("JavaScript:alert(1)"), Some("data:text/html,hi"), Some("not a url")}

\* Sessions requested with well-formed and malformed input.
InitValidation == InitWith({1}, {}, {})

NextValidation ==
  \/ SetCredentials("github")
  \/ DisableCredentials("github")
  \/ \E key \in SentProviders, id \in SentConnectionIds, redirectUri \in SentRedirectUris :
       CreateSession(Authorized, key, id, redirectUri, "verifier-a", MaxSessions)

SpecValidation == InitValidation /\ [][NextValidation]_vars

\* The Authorization headers requests carry: none, the configured key (with
\* the Bearer prefix in two spellings, and bare), and keys that differ from
\* it in a character or in length.
Authorizations ==
  {Null, Authorized, Some("bearer  oa_key"), Some("oa_key"), Some("Bearer oa_kez"),
   Some("Bearer oa")}

\* Every endpoint called with and without the configured key, on one pair.
InitAuth == InitWith({1}, {1}, {1})

NextAuth ==
  \/ \E authorization \in Authorizations, key \in {"github", "unknown"},
         clientId \in {"client-a"}, clientSecret \in ClientSecrets :
       ScStart(1, authorization, key, clientId, clientSecret)
  \/ ScWrite(1)
  \/ \E authorization \in Authorizations : ListProviders(authorization)
  \/ \E authorization \in Authorizations :
       CreateSession(authorization, "github", "user-1", Null, "verifier-a", MaxRacedSessions)
  \/ \E authorization \in Authorizations : GetConnection(authorization, "github", "user-1")
  \/ \E authorization \in Authorizations : Disconnect(authorization, "github", "user-1")
  \/ \E authorization \in Authorizations : TkStart(1, authorization, "github", "user-1")
  \/ Callback(1, CodeRequests, PlainResponses)

SpecAuth == InitAuth /\ [][NextAuth]_vars

\* The vault alone: every plaintext of at most MaxPlaintext bytes under
\* every nonce, encrypted, possibly tampered with, and decrypted.
InitVault == InitWith({}, {}, {})

NextVault ==
  \/ \E plaintext \in BytesUpTo(MaxPlaintext), iv \in Bytes : Encrypt(plaintext, iv)
  \/ Tamper
  \/ Decrypt

SpecVault == InitVault /\ [][NextVault]_vars

\* buildAuthorizationUrl alone, on every descriptor and input.
InitAuthUrl == InitWith({}, {}, {})

NextAuthUrl ==
  \E provider \in Descriptors, input \in AuthUrlInputs : BuildAuthorizationUrl(provider, input)

SpecAuthUrl == InitAuthUrl /\ [][NextAuthUrl]_vars

\* The pairs callers ask about: the connected ones and one never connected.
RequestedConnectionIds == ConnectionIds \cup {"user-2"}

\* Token responses with every optional field or none.
FullOrPlainResponses ==
  {r \in ExchangeResponses :
     \/ r.refresh_token = Null /\ r.expires_in = Null
     \/ r.refresh_token # Null /\ r.expires_in = Some(2)}

\* Connections of two providers, made by callbacks one at a time, read and
\* disconnected, all within one tick of the clock.
InitConnections == InitWith({1}, {}, {})

NextConnections ==
  \/ \E key \in {"github", "acme"} :
       \/ SetCredentials(key)
       \/ CreateSession(Authorized, key, "user-1", Null, "verifier-a", MaxSessions)
       \/ \E id \in RequestedConnectionIds :
            \/ GetConnection(Authorized, key, id)
            \/ Disconnect(Authorized, key, id)
  \/ \E p \in DOMAIN cb : Callback(p, CodeRequests, FullOrPlainResponses)

SpecConnections == InitConnections /\ [][NextConnections]_vars

\* The provider keys deployers configure: registered, unknown and malformed.
ConfiguredProviders == {"github", "acme", "unknown", "git hub"}

\* Two set-provider-credentials calls at a time, the deployer's disabling of
\* rows, and the list of providers.
InitCredentials == InitWith({}, {}, {1, 2})

NextCredentials ==
  \/ \E s \in DOMAIN sc :
       \/ \E key \in ConfiguredProviders, clientId \in ClientIds, clientSecret \in ClientSecrets :
            ScStart(s, Authorized, key, clientId, clientSecret)
       \/ ScWrite(s)
  \/ \E key \in ProviderKeys : DisableCredentials(key)
  \/ ListProviders(Authorized)

SpecCredentials == InitCredentials /\ [][NextCredentials]_vars

\* What the refresh endpoint answers when it may rotate the refresh token:
\* access token 2, and a new refresh token or none.
RotatingResponses ==
  [access_token : {<<2>>},
   refresh_token : {Null, Some(<<0>>)},
   expires_in : {Null, Some(1)},
   scope : {Null}]

\* Connections that hold a refresh token and expire after one tick,
\* refreshed on a provider that may rotate the refresh token.
NextRotate ==
  \/ Tick
  \/ SetCredentials("acme")
  \/ CreateSession(Authorized, "acme", "user-1", Null, "verifier-a", MaxRacedSessions)
  \/ Disconnect(Authorized, "acme", "user-1")
  \/ \E p \in DOMAIN cb :
       Callback(p, CodeRequests,
                {r \in ExchangeResponses : r.refresh_token # Null /\ r.expires_in = Some(1)})
  \/ \E q \in DOMAIN tk : TokenRead(q, {"acme"}, RotatingResponses)

SpecRotate == InitToken /\ [][NextRotate]_vars

\* Callbacks one at a time whose exchange or database calls may fail.
InitFailures == InitWith({1}, {}, {})

NextFailures ==
  \/ Tick
  \/ SetCredentials("github")
  \/ CreateSession(Authorized, "github", "user-1", Null, "verifier-a", MaxSessions)
  \/ \E p \in DOMAIN cb :
       \/ Callback(p, CodeRequests, PlainResponses)
       \/ CbThrow(p)

SpecFailures == InitFailures /\ [][NextFailures]_vars

\* Token responses of a provider whose expires_in may be absent, 0 or 1:
\* access token 1 with a refresh token from the exchange, access token 2
\* from a refresh.
ExchangeLifetimes ==
  [access_token : {<<1>>}, refresh_token : {Some(<<3>>)},
   expires_in : {Null, Some(0), Some(1)}, scope : {Null}]

RefreshLifetimes ==
  [access_token : {<<2>>}, refresh_token : {Null},
   expires_in : {Null, Some(0), Some(1)}, scope : {Null}]

\* Callbacks and token reads, one at a time, on such a provider.
NextExpiry ==
  \/ Tick
  \/ SetCredentials("acme")
  \/ CreateSession(Authorized, "acme", "user-1", Null, "verifier-a", MaxRacedSessions)
  \/ \E p \in DOMAIN cb : Callback(p, CodeRequests, ExchangeLifetimes)
  \/ \E q \in DOMAIN tk : TokenRead(q, {"acme"}, RefreshLifetimes)

SpecExpiry == InitToken /\ [][NextExpiry]_vars

\* What a provider answers whose refresh tokens name the instant of their
\* issue: to an exchange, and to a refresh (a new refresh token or none).
ExchangesIssuedNow ==
  [access_token : {<<1>>}, refresh_token : {Some(<<now>>)},
   expires_in : {Some(1)}, scope : {Null}]

RefreshesIssuedNow ==
  [access_token : {<<0>>, <<2>>}, refresh_token : {Null, Some(<<now>>)},
   expires_in : {Some(1)}, scope : {Null}]

\* The pair is connected once in the life of the broker.
ConnectedOnce == 1

\* Two token reads at a time on the connection of one pair, made by the
\* one session there is.
InitTwoReads == InitWith({1}, {1, 2}, {})

NextTwoReads ==
  \/ Tick
  \/ SetCredentials("acme")
  \/ CreateSession(Authorized, "acme", "user-1", Null, "verifier-a", ConnectedOnce)
  \/ \E p \in DOMAIN cb : Callback(p, CodeRequests, ExchangesIssuedNow)
  \/ \E q \in DOMAIN tk : TokenRead(q, {"acme"}, RefreshesIssuedNow)

SpecTwoReads == InitTwoReads /\ [][NextTwoReads]_vars

\* The redirect targets sessions are created with: none, a URL, and a
\* string that is no URL.
StoredRedirectUris == {Null, Some("https://app.example/done"), Some("not a url")}

\* Callbacks one at a time on sessions with such targets.
InitRedirects == InitWith({1}, {}, {})

NextRedirects ==
  \/ Tick
  \/ SetCredentials("github")
  \/ \E redirectUri \in StoredRedirectUris :
       CreateSession(Authorized, "github", "user-1", redirectUri, "verifier-a",
                     MaxRacedSessions)
  \/ \E p \in DOMAIN cb : Callback(p, CodeRequests, PlainResponses)

SpecRedirects == InitRedirects /\ [][NextRedirects]_vars

\* The rate limiter alone, on requests of two clients on two paths.
InitLimiter == InitWith({}, {}, {})

NextLimiter ==
  \/ ClockTick
  \/ \E request \in LimitedRequests : CheckRateLimit(request, configOf(request.pathname))

SpecLimiter == InitLimiter /\ [][NextLimiter]_vars

(* -------------------------------- claims ------------------------------- *)

\* The response just sent is the callback's answer to a request with the
\* state of session i.
callbackAnswered(i) ==
  /\ response # Null
  /\ response.endpoint = "callback"
  /\ response.state = Some(connectSessions[i].state)

\* C1: once a callback has completed a session, a later callback with its state (and a
\* code; every request of SpecRace carries one) is answered with the
\* invalid-session error straight from the lookup: it never gets past the
\* lookup, so it exchanges no code, and it changes no session and no
\* connection row.
C1_ReplayRejected ==
  [][\A i \in DOMAIN connectSessions :
       completions[i] >= 1 =>
         /\ \A p \in DOMAIN cb :
              cb[p].pc = "idle" => cb'[p].state # Some(connectSessions[i].state)
         /\ (/\ cb' = cb
             /\ response' # Null
             /\ response'.endpoint = "callback"
             /\ response'.state = Some(connectSessions[i].state))
            => /\ response'.status = "error"
               /\ response'.error = "Invalid or expired session"
               /\ connectSessions' = connectSessions
               /\ connections' = connections]_vars

C1_Witness ==
  \E i \in DOMAIN connectSessions :
    /\ completions[i] >= 1
    /\ connectSessions[i].status = "completed"
    /\ callbackAnswered(i)
    /\ response.error = "Invalid or expired session"

\* C2 (as stated): a session whose status is completed or expired keeps
\* that status in every step.
C2_TerminalStatusFinal ==
  [][\A i \in DOMAIN connectSessions :
       connectSessions[i].status \in {"completed", "expired"} =>
         connectSessions'[i].status = connectSessions[i].status]_vars

\* C3 (as stated): no session is completed more than once.
C3_AtMostOneCompletion ==
  \A i \in DOMAIN completions : completions[i] <= 1

\* C3: a session whose callbacks never overlapped in time is completed (code
\* exchanged, row written, 'completed' written) at most once.
C3_AtMostOneCompletionUnlessRaced ==
  \A i \in DOMAIN completions : i \notin raced => completions[i] <= 1

C3_Witness ==
  \E i \in DOMAIN completions :
    /\ i \notin raced
    /\ completions[i] = 1
    /\ callbackAnswered(i)
    /\ response.error = "Invalid or expired session"

\* C10: a callback that finds the session pending passes the expiry check at
\* every time up to and including createdAt + ten minutes and goes on to the
\* exchange (when the provider resolves) without touching the session; at any
\* later time it is answered "Session expired", writes 'expired' on the
\* session, exchanges nothing and leaves the connections alone.
C10_TenMinuteWindow ==
  [][\A p \in DOMAIN cb :
       (cb[p].pc = "check" /\ cb'[p] # cb[p]) =>
         LET session == connectSessions[cb[p].session] IN
         IF now <= session.createdAt + SessionTtl
           THEN /\ resolveProvider(session.providerKey) # Null => cb'[p].pc = "exchange"
                /\ response' = Null \/ response'.error # "Session expired"
                /\ connectSessions' = connectSessions
           ELSE /\ response' # Null
                /\ response'.state = cb[p].state
                /\ response'.error = "Session expired"
                /\ connectSessions'[session.id].status = "expired"
                /\ cb'[p].pc = "idle"
                /\ connections' = connections]_vars

C10_Witness ==
  \E i \in DOMAIN connectSessions :
    /\ callbackAnswered(i)
    /\ response.error = "Session expired"
    /\ connectSessions[i].status = "expired"
    /\ now > connectSessions[i].createdAt + SessionTtl

\* The step in which callback p wrote its connection row.
cbWrote(p) == cb[p].pc = "write" /\ cb'[p].pc = "complete"

\* C4: no (providerKey, connectionId) pair ever has two rows, and a callback
\* that writes while the pair has a row leaves that one row in place, with
\* the id and createdAt it had.
C4_OneRowPerPair ==
  [][/\ \A r1, r2 \in connections' :
          (r1.providerKey = r2.providerKey /\ r1.connectionId = r2.connectionId) => r1 = r2
     /\ \A p \in DOMAIN cb :
          cbWrote(p) =>
            LET session == connectSessions[cb[p].session] IN
            \A r \in rowsOf(session.providerKey, session.connectionId) :
              \E r2 \in connections' :
                /\ r2.id = r.id
                /\ r2.createdAt = r.createdAt
                /\ r2.providerKey = r.providerKey
                /\ r2.connectionId = r.connectionId
                /\ Cardinality(connections') = Cardinality(connections)]_vars

\* A second callback has just succeeded for a pair, whose one row was
\* created earlier and updated since.
C4_Witness ==
  \E i \in DOMAIN connectSessions :
    /\ callbackAnswered(i)
    /\ response.status = "success"
    /\ completions[i] >= 2
    /\ \E r \in rowsOf(connectSessions[i].providerKey, connectSessions[i].connectionId) :
         r.updatedAt > r.createdAt

\* C5 (as stated): a callback whose token response had no refresh token and
\* that writes over a row holding one leaves the row holding that refresh
\* token.
C5_RefreshTokenPreserved ==
  [][\A p \in DOMAIN cb :
       (cbWrote(p) /\ cb[p].refreshTokenEnc = Null) =>
         LET session == connectSessions[cb[p].session] IN
         \A r \in rowsOf(session.providerKey, session.connectionId) :
           r.refreshTokenEnc # Null =>
             \E r2 \in connections' :
               /\ r2.id = r.id
               /\ r2.refreshTokenEnc # Null
               /\ decrypt(r2.refreshTokenEnc) = decrypt(r.refreshTokenEnc)]_vars

\* The token endpoint answered in the step in which the request arrived.
tkReturnedAtOnce ==
  /\ tk' = tk
  /\ response' # Null
  /\ response'.endpoint = "token"

\* The answer just sent is the access token of row r as stored, not refreshed.
storedTokenAnswer(r) ==
  /\ response' # Null
  /\ response'.status = 200
  /\ response'.accessToken = decrypt(r.accessTokenEnc).value
  /\ response'.refreshed = FALSE
  /\ response'.error = ""

\* The refresh of read q ended without new tokens.
tkRefreshFailed(q) == tk[q].pc = "refreshing" /\ tk'[q].pc = "idle"

\* C6 (as stated): a read of a row that is expired and holds a refresh token,
\* whose refresh does not succeed for whatever cause, answers the stored
\* access token with refreshed = false and leaves the rows unchanged.
C6_RefreshFailureFallsBack ==
  [][/\ tkReturnedAtOnce =>
          \A r \in rowsOf(response'.provider, response'.connectionId) :
            needsRefresh(r) => storedTokenAnswer(r) /\ connections' = connections
     /\ \A q \in DOMAIN tk :
          tkRefreshFailed(q) =>
            storedTokenAnswer(tk[q].connection) /\ connections' = connections]_vars

\* Read q of the pair (key, id) took its first step: it answered at once or
\* went on to the refresh request.
tkStarted(q, key, id) ==
  /\ tk[q].pc = "idle"
  /\ \/ tk'[q].pc = "refreshing" /\ tk'[q].provider = key /\ tk'[q].connectionId = id
     \/ tkReturnedAtOnce /\ response'.provider = key /\ response'.connectionId = id

\* C7: a read takes the refresh branch (sends the refresh request, or fails
\* on the way to it) exactly when the row's tokenExpiresAt is set, now is at
\* or past it, and a refresh token is stored; otherwise it answers the stored
\* token with refreshed = false at once, sending nothing and writing nothing.
C7_RefreshExactlyWhenDue ==
  [][\A q \in DOMAIN tk : \A key \in ProviderKeys, id \in ConnectionIds :
       tkStarted(q, key, id) =>
         \A r \in rowsOf(key, id) :
           IF /\ r.tokenExpiresAt # Null
              /\ now >= r.tokenExpiresAt.v
              /\ r.refreshTokenEnc # Null
             THEN \/ tk'[q].pc = "refreshing"
                  \/ /\ response' # Null
                     /\ \/ response'.logged = "Token refresh failed"
                        \/ response'.error = "Provider not configured"
             ELSE /\ tk' = tk
                  /\ storedTokenAnswer(r)
                  /\ response'.logged = ""
                  /\ connections' = connections]_vars

\* A refresh request is in flight for a row read exactly at its expiry.
C7_Witness ==
  \E q \in DOMAIN tk :
    /\ tk[q].pc = "refreshing"
    /\ tk[q].connection.refreshTokenEnc # Null
    /\ tk[q].connection.tokenExpiresAt = Some(now)

\* C8: for a provider whose descriptor has refreshUrl null, no read ever has
\* a refresh request in flight or a refreshed row to write, and no answer of
\* the token endpoint comes with a change of the rows.
C8_NoRefreshWithoutRefreshUrl ==
  [][/\ \A q \in DOMAIN tk :
          tk'[q].pc # "idle" => getProvider(tk'[q].provider).refreshUrl # Null
     /\ (/\ response' # Null
         /\ response'.endpoint = "token"
         /\ getProvider(response'.provider).refreshUrl = Null)
        => connections' = connections]_vars

\* An expired row with a refresh token was read for such a provider.
C8_Witness ==
  /\ response # Null
  /\ response.endpoint = "token"
  /\ getProvider(response.provider).refreshUrl = Null
  /\ response.logged = "Token refresh failed"
  /\ response.refreshed = FALSE
  /\ \E r \in rowsOf(response.provider, response.connectionId) : needsRefresh(r)

\* The step in which read q wrote the refreshed tokens.
tkWrote(q) == tk[q].pc = "write" /\ tk'[q].pc = "idle"

\* C9: a successful refresh answers the new access token with refreshed =
\* true; the row it read, if still there, then decrypts to that token and
\* has the expiry the answer carries; and a read of that row before the new
\* expiry answers the same token with refreshed = false.
C9_RefreshStoresWhatItReturns ==
  [][\A q \in DOMAIN tk :
       tkWrote(q) =>
         /\ response' # Null
         /\ response'.status = 200
         /\ response'.refreshed = TRUE
         /\ response'.accessToken = tk[q].accessToken
         /\ \A r \in connections :
              r.id = tk[q].rowId =>
                \E r2 \in connections' :
                  /\ r2.id = r.id
                  /\ decrypt(r2.accessTokenEnc) = [ok |-> TRUE, value |-> response'.accessToken]
                  /\ r2.tokenExpiresAt = response'.expiresAt
                  /\ (r2.tokenExpiresAt = Null \/ now < r2.tokenExpiresAt.v) =>
                       /\ ~needsRefresh(r2)
                       /\ returnStored(tk[q].authorization, tk[q].provider, tk[q].connectionId, r2, "") =
                            tokenJson(tk[q].authorization, tk[q].provider, tk[q].connectionId, 200,
                                      response'.accessToken, response'.expiresAt,
                                      FALSE, "", "")]_vars

C9_Witness ==
  /\ response # Null
  /\ response.endpoint = "token"
  /\ response.refreshed = TRUE
  /\ \E r \in rowsOf(response.provider, response.connectionId) :
       /\ decrypt(r.accessTokenEnc).value = response.accessToken
       /\ r.tokenExpiresAt = response.expiresAt
       /\ r.tokenExpiresAt # Null

\* The step in which create-session stored a session.
sessionCreated == Len(connectSessions') = Len(connectSessions) + 1

\* The step in which callback p, having matched a session, answered.
cbAnswered(p) == cb[p].pc # "idle" /\ cb'[p].pc = "idle"

\* C15: the redirect_uri of every authorization URL create-session returns
\* is the broker's callback endpoint, not the redirectUri of the request; the
\* request's redirectUri is stored on the session unchanged, and a callback
\* that redirects to a caller's page redirects to the one stored.
C15_AuthUrlUsesBrokerCallback ==
  [][/\ sessionCreated =>
          LET session == connectSessions'[Len(connectSessions')] IN
          /\ response'.endpoint = "sessions"
          /\ response'.authUrl # Null
          /\ response'.authUrl.v.redirect_uri = "https://broker.example/api/connect/callback"
          /\ response'.request.redirectUri # Null =>
               response'.authUrl.v.redirect_uri # response'.request.redirectUri.v
          /\ session.redirectUri = response'.request.redirectUri
     /\ \A i \in DOMAIN connectSessions :
          connectSessions'[i].redirectUri = connectSessions[i].redirectUri
     /\ \A p \in DOMAIN cb :
          (cbAnswered(p) /\ response'.target # Null) =>
            response'.target = connectSessions[cb[p].session].redirectUri]_vars

\* A session was just created for a caller that gave a redirectUri.
C15_Witness ==
  /\ response # Null
  /\ response.endpoint = "sessions"
  /\ response.status = 200
  /\ response.request.redirectUri # Null
  /\ connectSessions[Len(connectSessions)].redirectUri = response.request.redirectUri

C17_VerifierIffPkce ==
  [][/\ \A i \in DOMAIN connectSessions' :
          connectSessions'[i].codeVerifier # Null <=> providers[connectSessions'[i].providerKey].pkce
     /\ sessionCreated =>
          LET session == connectSessions'[Len(connectSessions')] IN
          IF providers[session.providerKey].pkce
            THEN /\ session.codeVerifier # Null
                 /\ "code_challenge" \in DOMAIN response'.authUrl.v
                 /\ response'.authUrl.v.code_challenge =
                      "S256(" \o session.codeVerifier.v \o ")"
                 /\ response'.authUrl.v.code_challenge_method = "S256"
            ELSE "code_challenge" \notin DOMAIN response'.authUrl.v]_vars

\* A session of a PKCE provider was just created.
C17_Witness ==
  /\ response # Null
  /\ response.endpoint = "sessions"
  /\ response.status = 200
  /\ connectSessions[Len(connectSessions)].codeVerifier # Null
  /\ "code_challenge" \in DOMAIN response.authUrl.v

\* What the browser sees of a callback response: where it is sent and with
\* which status and message.
seen(r) == [target |-> r.target, status |-> r.status, error |-> r.error]

\* The callback's answer to a state value no session ever had.
unknownStateAnswer ==
  [target |-> Null, status |-> "error", error |-> "Invalid or expired session"]

\* C18: a callback (with a code) whose state matches no pending session is
\* answered the same whether the state was never issued or belongs to a
\* session already completed or marked expired: the generic page with
\* "Invalid or expired session"; and no callback gets past the lookup on a
\* session that is not pending.
C18_LookupDoesNotRevealState ==
  [][/\ \A p \in DOMAIN cb :
          (cb[p].pc = "idle" /\ cb'[p].pc # "idle") =>
            connectSessions[cb'[p].session].status = "pending"
     /\ (/\ cb' = cb
         /\ response' # Null
         /\ response'.endpoint = "callback"
         /\ response'.state # Null
         /\ \A i \in DOMAIN connectSessions :
              connectSessions[i].state = response'.state.v =>
                connectSessions[i].status \in {"completed", "expired"})
        => seen(response') = unknownStateAnswer]_vars

\* The state of a session marked expired was just answered.
C18_Witness ==
  \E i \in DOMAIN connectSessions :
    /\ connectSessions[i].status = "expired"
    /\ callbackAnswered(i)
    /\ seen(response) = unknownStateAnswer

\* Text t occurs in text s.
Contains(s, t) ==
  \E i \in 1 .. (Len(s) - Len(t) + 1) : SubSeq(s, i, i + Len(t) - 1) = t

\* C19 (as stated): when the token endpoint answers the code exchange with a
\* non-success status, the error parameter of the callback's redirect
\* contains neither that status nor the body of that answer.
C19_ExchangeErrorOpaque ==
  [][\A p \in DOMAIN cb :
       (/\ cbAnswered(p)
        /\ cb[p].pc = "exchange"
        /\ response'.upstream # Null
        /\ response'.upstream.v.kind = "http")
       => /\ ~Contains(response'.error, response'.upstream.v.status)
          /\ ~Contains(response'.error, response'.upstream.v.body)]_vars

\* C20 (as stated): a callback that matched a session with a redirectUri and
\* then fails redirects to that redirectUri with status=error.
C20_ErrorsGoToCaller ==
  [][\A p \in DOMAIN cb :
       (/\ cbAnswered(p)
        /\ response'.status = "error"
        /\ connectSessions[cb[p].session].redirectUri # Null)
       => response'.target = connectSessions[cb[p].session].redirectUri]_vars

\* The token response of the callback whose write is the latest change of
\* the row of (key, id) is still within its expires_in.
storedStillValid(key, id) ==
  /\ history[<<key, id>>].stored # Null
  /\ history[<<key, id>>].stored.v.validUntil # Null
  /\ now < history[<<key, id>>].stored.v.validUntil.v

\* C11: while the row of a pair is as a callback wrote it, from a token
\* response with access_token A and expires_in E, a token read of the pair
\* before receipt + E answers at once with A and refreshed = false.
C11_FreshTokenReturnedAsStored ==
  [][\A q \in DOMAIN tk : \A key \in ProviderKeys, id \in ConnectionIds :
       (tkStarted(q, key, id) /\ storedStillValid(key, id)) =>
         /\ tkReturnedAtOnce
         /\ response'.status = 200
         /\ response'.accessToken = history[<<key, id>>].stored.v.accessToken
         /\ response'.refreshed = FALSE]_vars

\* Such a read was just answered, a tick or more after the callback's write.
C11_Witness ==
  /\ response # Null
  /\ response.endpoint = "token"
  /\ response.status = 200
  /\ storedStillValid(response.provider, response.connectionId)
  /\ response.accessToken =
       history[<<response.provider, response.connectionId>>].stored.v.accessToken
  /\ \E r \in rowsOf(response.provider, response.connectionId) : r.updatedAt < now

\* The token endpoint just answered a read of a github connection whose row,
\* as the answering read found it, is expired and holds a refresh token.
githubDueAnswered(r) ==
  /\ response' # Null
  /\ response'.endpoint = "token"
  /\ response'.provider = "github"
  /\ tkReturnedAtOnce
  /\ r \in rowsOf("github", response'.connectionId)
  /\ needsRefresh(r)

\* C12 (as stated): a read of a github connection whose token is past its
\* expiry and whose row holds a refresh token is answered with refreshed =
\* true.
C12_GithubRefreshes ==
  [][\A r \in connections :
       githubDueAnswered(r) => response'.status = 200 /\ response'.refreshed = TRUE]_vars

\* C12: no read of a github connection ever has a refresh request in flight
\* or is answered with refreshed = true; a read of a row that is past its
\* expiry and holds a refresh token is answered at once, and the token it
\* returns is the stored one.
C12_GithubReturnsStoredToken ==
  [][/\ \A q \in DOMAIN tk : tk'[q].pc # "idle" => tk'[q].provider # "github"
     /\ (response' # Null /\ response'.endpoint = "token" /\ response'.provider = "github")
        => response'.refreshed = FALSE
     /\ \A r \in connections :
          (githubDueAnswered(r) /\ response'.status = 200) =>
            response'.accessToken = decrypt(r.accessTokenEnc).value]_vars

C12_Witness ==
  /\ response # Null
  /\ response.endpoint = "token"
  /\ response.provider = "github"
  /\ response.status = 200
  /\ response.refreshed = FALSE
  /\ \E r \in rowsOf("github", response.connectionId) :
       /\ needsRefresh(r)
       /\ response.accessToken = decrypt(r.accessTokenEnc).value

\* (key, id) was disconnected with success, and since then no callback for
\* the pair completed.
disconnectedAndNoneCompleted(key, id) ==
  history[<<key, id>>].disconnected /\ ~history[<<key, id>>].completedSince

\* (key, id) was disconnected with success, and since then no callback for
\* the pair wrote its connection row.
disconnectedAndNoneWrote(key, id) ==
  history[<<key, id>>].disconnected /\ ~history[<<key, id>>].wroteSince

\* The status read answers not connected and the token read not found.
answersNotConnected ==
  /\ response'.endpoint = "connection" => response'.status = 200 /\ response'.connected = FALSE
  /\ response'.endpoint = "token" =>
       response'.status = 404 /\ response'.error = "Connection not found"

\* An answer of the status read or the token read for (key, id).
readAnswered(key, id) ==
  /\ response' # Null
  /\ response'.endpoint \in {"connection", "token"}
  /\ response'.provider = key
  /\ response'.connectionId = id

\* C13 (as stated): after a successful disconnect of a pair and until a
\* callback for the pair completes, the status read answers connected =
\* false and the token read answers not found.
C13_DisconnectedUntilCallbackCompletes ==
  [][\A key \in ProviderKeys, id \in ConnectionIds :
       (readAnswered(key, id) /\ disconnectedAndNoneCompleted(key, id))
         => answersNotConnected]_vars

\* C13: after a successful disconnect of a pair and until a callback for the
\* pair writes its connection row (which it does before it marks its session
\* completed), the status read answers connected = false and the token read
\* answers not found, and no token read of the pair has a refresh in flight.
C13_DisconnectedUntilCallbackWrites ==
  [][\A key \in ProviderKeys, id \in ConnectionIds :
       /\ (readAnswered(key, id) /\ disconnectedAndNoneWrote(key, id))
            => answersNotConnected
       /\ \A q \in DOMAIN tk :
            (tkStarted(q, key, id) /\ disconnectedAndNoneWrote(key, id))
              => tkReturnedAtOnce]_vars

\* A disconnected pair was just read while a callback for it is in flight.
C13_Witness ==
  /\ response # Null
  /\ response.endpoint \in {"connection", "token"}
  /\ disconnectedAndNoneWrote(response.provider, response.connectionId)
  /\ response.endpoint = "connection" => ~response.connected
  /\ response.endpoint = "token" => response.status = 404
  /\ \E p \in DOMAIN cb : cb[p].pc \in {"select", "write"}

\* The request create-session just answered is malformed: its provider key
\* or connection id fails validate.ts, or it has a redirectUri that does.
malformedSessionRequest(request) ==
  \/ validateProviderKey(request.provider) = Null
  \/ validateConnectionId(request.connectionId) = Null
  \/ request.redirectUri # Null /\ validateRedirectUri(request.redirectUri) = Null

\* C21: create-session declines a request with a malformed provider key, a
\* malformed connection id or a malformed, javascript: or data: redirectUri
\* and stores nothing for it, so no session row holds such a value.
C21_MalformedSessionRejected ==
  [][/\ (/\ response' # Null
         /\ response'.endpoint = "sessions"
         /\ malformedSessionRequest(response'.request))
        => /\ response'.status \in {400, 404}
           /\ connectSessions' = connectSessions
     /\ \A i \in DOMAIN connectSessions' :
          ~malformedSessionRequest([provider |-> connectSessions'[i].providerKey,
                                    connectionId |-> connectSessions'[i].connectionId,
                                    redirectUri |-> connectSessions'[i].redirectUri])]_vars

\* The endpoints behind the API key: all but the OAuth callback.
KeyedEndpoints == {"sessions", "token", "connection", "disconnect", "providers", "credentials"}

\* The Authorization header of the request a response answers.
authorizationOf(r) ==
  IF r.endpoint = "sessions" THEN r.request.authorization ELSE r.authorization

\* The header carries the configured key oa_key, bare or after "Bearer".
carriesKey(authorization) ==
  /\ authorization # Null
  /\ authorization.v \in {"Bearer oa_key", "bearer  oa_key", "oa_key"}

\* C22: with an API key configured, every endpoint but the callback answers
\* a request that does not carry the key with 401 and leaves sessions,
\* connections and credentials as they are.
C22_KeyRequiredEverywhere ==
  [][(/\ response' # Null
      /\ response'.endpoint \in KeyedEndpoints
      /\ ~carriesKey(authorizationOf(response')))
     => /\ response'.status = 401
        /\ UNCHANGED <<connectSessions, connections, providerCredentials>>]_vars

\* C23: decrypt of what encrypt returned gives back the plaintext, for
\* every plaintext, the empty one included.
C23_RoundTrip ==
  (/\ response # Null
   /\ response.endpoint = "vault"
   /\ ~response.tampered
   /\ response.decrypted # Null)
  => response.decrypted.v = [ok |-> TRUE, value |-> response.plaintext]

\* C24: decrypt of a payload of encrypt in which one byte was changed
\* (of the nonce, of the auth tag or of the ciphertext) fails; it returns
\* no plaintext.
C24_TamperedPayloadRejected ==
  (/\ response # Null
   /\ response.endpoint = "vault"
   /\ response.tampered
   /\ response.decrypted # Null)
  => ~response.decrypted.v.ok

\* A payload of a non-empty plaintext with a changed ciphertext byte was
\* just refused.
C24_Witness ==
  /\ response # Null
  /\ response.endpoint = "vault"
  /\ response.tampered
  /\ response.decrypted # Null
  /\ ~response.decrypted.v.ok
  /\ Len(response.payload.ciphertext) >= 1
  /\ response.payload.authTag[2] # response.payload.ciphertext

\* buildAuthorizationUrl was just applied.
authUrlBuilt == response # Null /\ response.endpoint = "authUrl"

\* The input supplies a challenge.
challengeSupplied == response.input.codeChallenge # Null /\ response.input.codeChallenge.v # ""

\* The URL has the PKCE parameters of the challenge supplied.
hasPkceParams ==
  /\ {"code_challenge", "code_challenge_method"} \subseteq DOMAIN response.url
  /\ response.url["code_challenge"] = response.input.codeChallenge.v
  /\ response.url["code_challenge_method"] = "S256"

hasNoPkceParams == {"code_challenge", "code_challenge_method"} \cap DOMAIN response.url = {}

\* C25 (as stated): for every descriptor and input, the URL has
\* code_challenge and code_challenge_method=S256 when the descriptor has pkce
\* and a challenge is supplied, and neither when it has no pkce.
C25_PkceParamsFollowPkce ==
  authUrlBuilt =>
    /\ (response.provider.pkce /\ challengeSupplied) => hasPkceParams
    /\ ~response.provider.pkce => hasNoPkceParams

\* C25: for every descriptor whose extra authorization parameters name
\* neither code_challenge nor code_challenge_method, the URL has
\* code_challenge (the one supplied) and code_challenge_method=S256 when the
\* descriptor has pkce and a non-empty challenge is supplied, and neither
\* parameter otherwise.
C25_PkceParamsFollowPkceUnlessOverridden ==
  (/\ authUrlBuilt
   /\ {"code_challenge", "code_challenge_method"}
        \cap DOMAIN response.provider.authorizationParams = {})
  => IF response.provider.pkce /\ challengeSupplied THEN hasPkceParams ELSE hasNoPkceParams

\* A URL was just built for a descriptor without pkce from an input that
\* supplies a challenge.
C25_Witness ==
  /\ authUrlBuilt
  /\ ~response.provider.pkce
  /\ challengeSupplied
  /\ hasNoPkceParams

\* C26: every parameter the descriptor's extra authorization parameters
\* name has the descriptor's value in the URL, whatever the engine computed
\* for it; response_type is code exactly when the descriptor does not name
\* response_type or names it with that value.
C26_DescriptorParamsWin ==
  authUrlBuilt =>
    /\ \A name \in DOMAIN response.provider.authorizationParams :
         /\ name \in DOMAIN response.url
         /\ response.url[name] = response.provider.authorizationParams[name]
    /\ "response_type" \in DOMAIN response.url
    /\ response.url["response_type"] = "code"
         <=> \/ "response_type" \notin DOMAIN response.provider.authorizationParams
             \/ response.provider.authorizationParams["response_type"] = "code"

\* A URL was just built whose redirect_uri is the descriptor's, not the one
\* the engine was given.
C26_Witness ==
  /\ authUrlBuilt
  /\ "redirect_uri" \in DOMAIN response.provider.authorizationParams
  /\ response.url["redirect_uri"] = response.provider.authorizationParams["redirect_uri"]
  /\ response.url["redirect_uri"] # response.input.redirectUri

\* Other values for the secret columns of a row.
retokenedRows(r) ==
  {[r EXCEPT !.accessTokenEnc = a, !.refreshTokenEnc = f, !.rawCredentials = c] :
     a \in {r.accessTokenEnc, encrypt(<<0>>, 1)},
     f \in {r.refreshTokenEnc, Null, Some(encrypt(<<0, 0>>, 1))},
     c \in {r.rawCredentials, encrypt(<<0>>, 1)}}

\* The tables that differ from the connections table in secret columns only.
RECURSIVE retokened(_)
retokened(rows) ==
  IF rows = {} THEN {{}}
  ELSE LET r == CHOOSE row \in rows : TRUE IN
       {table \cup {other} : table \in retokened(rows \ {r}), other \in retokenedRows(r)}

retokenedTables == retokened(connections)

\* C27: the status read answers the same on two tables that differ only in
\* access token, refresh token or raw credentials, and what it answers has
\* provider, connection id, scopes and timestamps, no column of a token.
C27_StatusIndependentOfTokens ==
  (response # Null /\ response.endpoint = "connection") =>
       /\ \A table \in retokenedTables :
            connectionStatus(table, response.authorization, response.provider,
                             response.connectionId) = response
       /\ DOMAIN response = {"endpoint", "authorization", "provider", "connectionId",
                             "status", "connected", "error", "details"}
       /\ response.connected =>
            DOMAIN response.details.v
              = {"scopes", "tokenExpiresAt", "createdAt", "updatedAt"}

\* The status of a connected pair whose row holds a refresh token was just
\* read, while the table has another pair's row.
C27_Witness ==
  /\ response # Null
  /\ response.endpoint = "connection"
  /\ response.connected
  /\ \E r \in rowsOf(response.provider, response.connectionId) : r.refreshTokenEnc # Null
  /\ Cardinality(connections) = 2
  /\ Cardinality(retokenedTables) > 1

\* C28: a disconnect that succeeds deletes the row of its pair and no other
\* row; one that answers not found changes no row; neither changes a
\* session; and a disconnect right after a successful one of the same pair
\* answers not found.
C28_DisconnectDeletesOnlyItsPair ==
  [][(response' # Null /\ response'.endpoint = "disconnect") =>
       LET mine == rowsOf(response'.provider, response'.connectionId) IN
       /\ connectSessions' = connectSessions
       /\ response'.status \in {200, 404}
       /\ response'.status = 200 =>
            /\ Cardinality(mine) = 1
            /\ connections' = connections \ mine
       /\ response'.status = 404 =>
            /\ mine = {}
            /\ connections' = connections
       /\ (/\ response # Null
           /\ response.endpoint = "disconnect"
           /\ response.status = 200
           /\ response.provider = response'.provider
           /\ response.connectionId = response'.connectionId)
          => response'.status = 404]_vars

\* A pair was just disconnected and the row of another pair is still there.
C28_Witness ==
  /\ response # Null
  /\ response.endpoint = "disconnect"
  /\ response.status = 200
  /\ rowsOf(response.provider, response.connectionId) = {}
  /\ connections # {}
  /\ connectSessions # <<>>

C30_RefreshTokenKeptOrReplaced ==
  [][\A q \in DOMAIN tk :
       tkWrote(q) =>
         \A r \in connections' :
           r.id = tk[q].rowId =>
             IF tk[q].tokenResponse.v.refresh_token = Null
               THEN /\ r.refreshTokenEnc = tk[q].connection.refreshTokenEnc
                    /\ decrypt(r.refreshTokenEnc).ok
               ELSE /\ r.refreshTokenEnc # Null
                    /\ decrypt(r.refreshTokenEnc).ok
                    /\ decrypt(r.refreshTokenEnc).value
                         = tk[q].tokenResponse.v.refresh_token.v]_vars

\* A refresh has just answered and the row still holds the refresh token
\* the code exchange returned: the refresh response had none.
C30_Witness ==
  /\ response # Null
  /\ response.endpoint = "token"
  /\ response.refreshed
  /\ \E r \in rowsOf(response.provider, response.connectionId) :
       /\ r.refreshTokenEnc # Null
       /\ decrypt(r.refreshTokenEnc).value = <<3>>
       /\ decrypt(r.accessTokenEnc).value = <<2>>

\* Callback p has issued its connection write and not yet the session's.
issuedConnectionWrite(p) == cb[p].pc = "complete"

\* The step in which a database call of callback p threw.
cbThrew(p) ==
  /\ cb[p].pc # "idle"
  /\ cb'[p].pc = "idle"
  /\ response'.error = databaseError

\* C31: a session becomes completed only in a step of a callback for it
\* that has issued its connection write, and a failure between that write
\* and the session's leaves the session pending.
C31_ConnectionWrittenBeforeCompleted ==
  [][/\ \A i \in DOMAIN connectSessions :
          (connectSessions'[i].status = "completed" /\ connectSessions[i].status # "completed")
            => \E p \in DOMAIN cb : cb[p].session = i /\ issuedConnectionWrite(p)
     /\ \A p \in DOMAIN cb :
          (cbThrew(p) /\ issuedConnectionWrite(p)) =>
            /\ connectSessions' = connectSessions
            /\ connectSessions'[cb[p].session].status = "pending"]_vars

\* The one session there is is pending, its callback has just failed, and
\* the row of its pair is written.
C31_Witness ==
  /\ Len(connectSessions) = 1
  /\ connectSessions[1].status = "pending"
  /\ response # Null
  /\ response.endpoint = "callback"
  /\ response.error = databaseError
  /\ rowsOf(connectSessions[1].providerKey, connectSessions[1].connectionId) # {}

\* The step in which callback p failed before its connection write: the
\* exchange failed, or a database call threw.
cbFailedBeforeWrite(p) ==
  /\ cb[p].pc \in {"check", "exchange", "select", "write"}
  /\ cb'[p].pc = "idle"
  /\ response'.upstream # Null \/ response'.error = databaseError

\* C32: a callback whose exchange fails, or that fails before its
\* connection write, changes no connection and leaves its session pending,
\* matched by the lookup of a later callback with the same state; and a
\* callback is told its session is invalid only when no pending session has
\* its state.
C32_FailureLeavesSessionPending ==
  [][\A p \in DOMAIN cb :
       /\ cbFailedBeforeWrite(p) =>
            /\ connections' = connections
            /\ connectSessions' = connectSessions
            /\ connectSessions'[cb[p].session].status = "pending"
            /\ {i \in DOMAIN connectSessions' :
                  /\ connectSessions'[i].state = cb[p].state.v
                  /\ connectSessions'[i].status = "pending"} = {cb[p].session}
       /\ (/\ cb[p].pc = "idle"
           /\ response' # Null
           /\ response'.endpoint = "callback"
           /\ response'.error = "Invalid or expired session")
          => pendingByState(response'.state.v) = {}]_vars

\* The exchange of a callback has just failed, its session is pending, and
\* the connection an earlier session made is in the table.
C32_Witness ==
  /\ response # Null
  /\ response.endpoint = "callback"
  /\ response.upstream # Null
  /\ pendingByState(response.state.v) # {}
  /\ connections # {}

\* The expiry a token response received at an instant stands for: that
\* instant plus expires_in when the response has one, none otherwise.
expiryStated(receivedAt, tokenResponse) ==
  IF tokenResponse.expires_in # Null
    THEN Some(receivedAt + tokenResponse.expires_in.v)
    ELSE Null

\* C33: the tokenExpiresAt a callback or a refresh stores is the receipt
\* time of its token response plus the response's expires_in when it has
\* one, whatever its value, and null only when it has none.
C33_ExpiryFromExpiresIn ==
  [][/\ \A p \in DOMAIN cb :
          cbWrote(p) =>
            \A r \in connections' :
              (r.id = cb[p].existing \/ (cb[p].existing = 0 /\ r \notin connections))
                => r.tokenExpiresAt = cb[p].validUntil
     /\ \A q \in DOMAIN tk :
          tkWrote(q) =>
            \A r \in connections' :
              r.id = tk[q].rowId
                => r.tokenExpiresAt = expiryStated(tk[q].updatedAt, tk[q].tokenResponse.v)]_vars

\* C34: every token read that refreshed answers refreshed = true with the
\* access token it obtained, and its update leaves the row with that token
\* and its expiry, whatever another read wrote to the row since it was read:
\* the row is as the last update left it.
C34_LastRefreshWriteWins ==
  [][\A q \in DOMAIN tk :
       tkWrote(q) =>
         /\ response' # Null
         /\ response'.status = 200
         /\ response'.refreshed
         /\ response'.accessToken = tk[q].accessToken
         /\ \A r \in connections :
              r.id = tk[q].rowId =>
                \E r2 \in connections' :
                  /\ r2.id = r.id
                  /\ decrypt(r2.accessTokenEnc).ok
                  /\ decrypt(r2.accessTokenEnc).value = tk[q].accessToken
                  /\ r2.tokenExpiresAt = tk[q].newExpiresAt]_vars

\* A read has just answered its refreshed token and written it to the row,
\* while another read that read the row before that write holds another
\* token and has its own write still to come.
C34_Witness ==
  /\ response # Null
  /\ response.endpoint = "token"
  /\ response.refreshed
  /\ \E q \in DOMAIN tk, r \in rowsOf(response.provider, response.connectionId) :
       /\ tk[q].pc = "write"
       /\ tk[q].rowId = r.id
       /\ tk[q].connection # r
       /\ tk[q].accessToken # response.accessToken
       /\ decrypt(r.accessTokenEnc).value = response.accessToken

\* The instant at which the refresh token of a row was issued.
refreshTokenIssuedAt(r) == decrypt(r.refreshTokenEnc).value[1]

\* C35: a refresh write never leaves the row with a refresh token issued
\* before the one it replaces.
C35_RefreshTokenNeverOlder ==
  [][\A q \in DOMAIN tk :
       tkWrote(q) =>
         \A r \in connections, r2 \in connections' :
           (r.id = tk[q].rowId /\ r2.id = r.id /\ r.refreshTokenEnc # Null) =>
             /\ r2.refreshTokenEnc # Null
             /\ refreshTokenIssuedAt(r2) >= refreshTokenIssuedAt(r)]_vars

\* An update in flight (row read, write to come) does not bring back a row
\* that was deleted since: the write of a token read, and the write of a
\* callback that selected a row, add no row.
updateAddsNoRow ==
  /\ \A q \in DOMAIN tk :
       tkWrote(q) => {r.id : r \in connections'} \subseteq {r.id : r \in connections}
  /\ \A p \in DOMAIN cb :
       (cbWrote(p) /\ cb[p].existing # 0)
         => {r.id : r \in connections'} \subseteq {r.id : r \in connections}

\* C36: a disconnect that lands while a refresh or a callback update of the
\* pair is in flight is not undone by that update, and the token read
\* answers refreshed = true only for a connection that exists when it
\* answers.
C36_DisconnectNotUndone ==
  [][/\ updateAddsNoRow
     /\ \A q \in DOMAIN tk :
          (tkWrote(q) /\ response'.refreshed)
            => rowsOf(tk[q].provider, tk[q].connectionId)' # {}]_vars

\* No update in flight ever adds a row.
UpdatesAddNoRow == [][updateAddsNoRow]_vars

\* C37: a callback that redirects with status=error has issued no
\* connection write and leaves its session not completed, and one that
\* redirects with success has issued its connection write and leaves the
\* session completed, whatever redirectUri the session has.
C37_OutcomeMatchesState ==
  [][\A p \in DOMAIN cb :
       cbAnswered(p) =>
         /\ response'.status = "error" =>
              /\ ~issuedConnectionWrite(p)
              /\ connectSessions'[cb[p].session].status # "completed"
         /\ response'.status = "success" =>
              /\ issuedConnectionWrite(p)
              /\ connectSessions'[cb[p].session].status = "completed"]_vars

\* The requests of the history with a key that were admitted from an
\* instant on and before another.
admittedBetween(key, from, to) ==
  {i \in DOMAIN checked :
     /\ checked[i].key = key
     /\ checked[i].admitted
     /\ from <= checked[i].at
     /\ checked[i].at < to}

\* C38: of the requests with one key, no interval of the length of the
\* window has more than limit admitted ones (it is enough to look at the
\* intervals that start with an admitted request).
C38_SlidingWindow ==
  \A i \in DOMAIN checked :
    checked[i].admitted =>
      Cardinality(admittedBetween(checked[i].key, checked[i].at,
                                  checked[i].at + checked[i].config.windowMs))
        <= checked[i].config.limit

\* The window of a key after the first n requests of the history, from the
\* history alone: a request with no window, or after the window's resetAt,
\* opens one with count 1; any other one is counted in the window.
RECURSIVE windowAfter(_, _)
windowAfter(key, n) ==
  IF n = 0 THEN Null
  ELSE LET before == windowAfter(key, n - 1)
           request == checked[n] IN
       IF request.key # key THEN before
       ELSE IF before = Null \/ request.at > before.v.resetAt
         THEN Some([count |-> 1, resetAt |-> request.at + request.config.windowMs])
       ELSE Some([before.v EXCEPT !.count = @ + 1])

\* C39: a request is admitted exactly when it is one of the first limit
\* requests of its key's window, windows being opened by the first request
\* of a key and by the first one after the resetAt of the window before;
\* and the entry of a key is its window, or is missing only once the
\* window has ended.
C39_FixedWindow ==
  /\ \A n \in DOMAIN checked :
       checked[n].admitted
         <=> windowAfter(checked[n].key, n).v.count <= checked[n].config.limit
  /\ \A n \in DOMAIN checked :
       LET key == checked[n].key
           window == windowAfter(key, Len(checked)).v IN
       IF key \in DOMAIN store
         THEN store[key] = window
         ELSE clock > window.resetAt

\* A key was cleaned up after its window ended and has since opened a new
\* window and been refused in it.
C39_Witness ==
  /\ response # Null
  /\ response.endpoint = "rateLimit"
  /\ response.status = 429
  /\ lastCleanup > 0
  /\ \E n \in DOMAIN checked :
       /\ checked[n].key = response.key
       /\ checked[n].at + checked[n].config.windowMs < clock
  /\ \E key \in {checked[n].key : n \in DOMAIN checked} : key \notin DOMAIN store

====
